---- MODULE Spec2Model ----
(***************************************************************************)
(* Model of the TS3 query connection engine (keko/ts3api/connection.py)    *)
(* and of the pure helpers it uses (keko/ts3api/protocol.py,               *)
(* keko/ts3api/exceptions.py).                                             *)
(*                                                                         *)
(* The engine runs on one asyncio event loop: a task runs without          *)
(* interruption from one await to the next, so every action below is the   *)
(* code between two suspension points of one task.  The server and the     *)
(* TCP stream are the environment.  Time is abstracted: a bounded wait     *)
(* (asyncio.wait_for) may expire whenever the thing awaited has not        *)
(* completed yet; a wait that has been notified is resumed, not expired.   *)
(***************************************************************************)
EXTENDS Integers, Sequences, FiniteSets, TLC

\* ----------------------------------------------------------------- bounds
MaxCmds == 2      \* command calls issued in one behaviour
MaxExtra == 2     \* data and notification lines the server sends in one behaviour
MaxLen == 3       \* characters of a text given to a pure helper

\* ------------------------------------------------------------ basic values
None == <<>>                       \* Python None, as the empty option
Some(x) == <<x>>

Callers == {"t1"}                  \* tasks of the application calling _send
Keepalive == "keepalive"           \* the task created by start_keepalive
Tasks == Callers \cup {Keepalive}
CmdIds == 1..MaxCmds               \* ghost: call tickets, in call order

\* ------------------------------------------------------- protocol.py codec
\* Characters are one-element strings; BEL, BSP, FF, VT name control chars.
ESCAPE_MAP ==
  << <<"\\", <<"\\", "\\">> >>,
     <<"/",  <<"\\", "/">> >>,
     <<" ",  <<"\\", "s">> >>,
     <<"|",  <<"\\", "p">> >>,
     <<"BEL", <<"\\", "a">> >>,
     <<"BSP", <<"\\", "b">> >>,
     <<"FF", <<"\\", "f">> >>,
     <<"\n", <<"\\", "n">> >>,
     <<"\r", <<"\\", "r">> >>,
     <<"\t", <<"\\", "t">> >>,
     <<"VT", <<"\\", "v">> >> >>

\* str.replace(old, new): left to right, non-overlapping.
RECURSIVE Replace(_, _, _)
Replace(s, old, new) ==
  IF Len(s) < Len(old) THEN s
  ELSE IF SubSeq(s, 1, Len(old)) = old
       THEN new \o Replace(SubSeq(s, Len(old) + 1, Len(s)), old, new)
       ELSE <<s[1]>> \o Replace(Tail(s), old, new)

\* escape: the table in order, char -> replacement.
RECURSIVE EscapeFrom(_, _)
EscapeFrom(raw, i) ==
  IF i > Len(ESCAPE_MAP) THEN raw
  ELSE EscapeFrom(Replace(raw, <<ESCAPE_MAP[i][1]>>, ESCAPE_MAP[i][2]), i + 1)

escape_two_only(raw) ==
  Replace(Replace(raw, <<"\\">>, <<"\\", "\\">>), <<" ">>, <<"\\", "s">>)

escape(raw) == EscapeFrom(raw, 1)

\* unescape: the table in reverse order, replacement -> char, each
\* replacement made on the result of the one before.
RECURSIVE UnescapeFrom(_, _)
UnescapeFrom(raw, i) ==
  IF i = 0 THEN raw
  ELSE CHOOSE result \in
         {UnescapeFrom(replaced, i - 1) :
            replaced \in {Replace(raw, ESCAPE_MAP[i][2], <<ESCAPE_MAP[i][1]>>)}} : TRUE

unescape(raw) == UnescapeFrom(raw, Len(ESCAPE_MAP))

\* str.split(c) for a one-character separator: the pieces between the
\* separators, empty pieces included
RECURSIVE SplitOn(_, _)
SplitOn(text, c) ==
  IF \A i \in DOMAIN text : text[i] # c THEN <<text>>
  ELSE LET i == CHOOSE j \in DOMAIN text :
                  text[j] = c /\ \A k \in 1..(j - 1) : text[k] # c
       IN <<SubSeq(text, 1, i - 1)>> \o SplitOn(SubSeq(text, i + 1, Len(text)), c)

\* sep.join(parts)
RECURSIVE JoinWith(_, _)
JoinWith(parts, sep) ==
  IF parts = <<>> THEN <<>>
  ELSE IF Len(parts) = 1 THEN parts[1]
  ELSE parts[1] \o sep \o JoinWith(Tail(parts), sep)

\* part.split("=", 1): the text before the first "=" and the text after it
SplitOnce(part) ==
  LET pieces == SplitOn(part, "=")
  IN [key |-> Head(pieces), value |-> JoinWith(Tail(pieces), <<"=">>)]

\* result[key] = value on a dict, a function from its keys to their values
DictPut(result, key, value) == (key :> value) @@ result

\* one round of the loop of parse_response_to_dict
ParsePartKeepEmpty(result, part) ==
  IF \E i \in DOMAIN part : part[i] = "="
  THEN DictPut(result, SplitOnce(part).key, unescape(SplitOnce(part).value))
  ELSE DictPut(result, part, <<>>)

ParsePart(result, part) ==
  IF \E i \in DOMAIN part : part[i] = "="
  THEN DictPut(result, SplitOnce(part).key, unescape(SplitOnce(part).value))
  ELSE IF part # <<>> THEN DictPut(result, part, <<>>)
  ELSE result

RECURSIVE ParseParts(_, _)
ParseParts(result, parts) ==
  IF parts = <<>> THEN result
  ELSE ParseParts(ParsePart(result, Head(parts)), Tail(parts))

\* parse_response_to_dict(response)
parse_response_to_dict(response) ==
  ParseParts([k \in {} |-> <<>>], SplitOn(response, " "))

\* what one item of response.split("|") adds to the list
ItemRecordsKeepEmpty(item) == <<parse_response_to_dict(item)>>

ItemRecords(item) ==
  IF item # <<>> THEN <<parse_response_to_dict(item)>> ELSE <<>>

RECURSIVE ItemsRecords(_)
ItemsRecords(items) ==
  IF items = <<>> THEN <<>>
  ELSE ItemRecords(Head(items)) \o ItemsRecords(Tail(items))

\* parse_response_to_list(response)
parse_response_to_list(response) == ItemsRecords(SplitOn(response, "|"))

\* A keyword value is a str or an int.
StrValue(x) == [t |-> "str", v |-> x]
IntValue(n) == [t |-> "int", v |-> n]

\* str(v)
DigitChars == <<"0", "1", "2", "3", "4", "5", "6", "7", "8", "9">>
RECURSIVE StrNat(_)
StrNat(n) ==
  IF n < 10 THEN <<DigitChars[n + 1]>>
  ELSE StrNat(n \div 10) \o <<DigitChars[(n % 10) + 1]>>
Str(val) ==
  IF val.t = "str" THEN val.v
  ELSE IF val.v < 0 THEN <<"-">> \o StrNat(0 - val.v) ELSE StrNat(val.v)

\* text.encode("utf-8"): one byte, written as the character, for an ASCII
\* character and two bytes for U+00E4
RECURSIVE EncodeUtf8(_)
EncodeUtf8(text) ==
  IF text = <<>> THEN <<>>
  ELSE (IF Head(text) = "U+00E4" THEN <<"0xC3", "0xA4">> ELSE <<Head(text)>>)
       \o EncodeUtf8(Tail(text))

\* build_command(command, *args, **kwargs); kwargs is the sequence of the
\* keyword arguments in the order given
build_command_unescaped(command, args, kwargs) ==
  EncodeUtf8(
    JoinWith(<<command>>
             \o [i \in 1..Len(args) |-> <<"-">> \o args[i]]
             \o [i \in 1..Len(kwargs) |-> kwargs[i].k \o <<"=">> \o Str(kwargs[i].v)],
             <<" ">>)
    \o <<"\n", "\r">>)

build_command(command, args, kwargs) ==
  EncodeUtf8(
    JoinWith(<<command>>
             \o [i \in 1..Len(args) |-> <<"-">> \o args[i]]
             \o [i \in 1..Len(kwargs) |->
                   kwargs[i].k \o <<"=">> \o escape(Str(kwargs[i].v))],
             <<" ">>)
    \o <<"\n", "\r">>)

\* --------------------------------------------------------- lines on the wire
\* A line is the sequence of its space-separated parts.  A part is key,
\* "=" and value, or a bare key.  Values are character sequences.
\* Ghost fields: cmd is the command the server sent the line for
\* (0: unsolicited), n numbers the data lines of one response.
Bare(k) == [k |-> k, eq |-> FALSE, v |-> <<>>]
KV(k, v) == [k |-> k, eq |-> TRUE, v |-> v]

MsgOk == <<"o", "k">>
MsgInvalid == <<"i", "n", "v", "a", "l", "i", "d", "\\", "s", "p">>
IdOk == <<"0">>
IdInvalid == <<"5", "1", "2">>

ErrorLine(c, id, msg) ==
  [words |-> <<Bare("error"), KV("id", id), KV("msg", msg)>>, cmd |-> c, n |-> 0]
DataLine(c, k) ==
  [words |-> <<KV("client_id", <<"5">>)>>, cmd |-> c, n |-> k]
NotifyLine(type) ==
  [words |-> <<Bare(type), KV("clid", <<"1">>)>>, cmd |-> 0, n |-> 0]
GreetingLine(text) == [words |-> <<Bare(text)>>, cmd |-> 0, n |-> 0]

KnownEvents == {"notifycliententerview"}
NotifyTypes == KnownEvents \cup {"notifyunknownevent"}

\* ghost: the line is the terminal line of a command's response
IsTerminal(line) == line.cmd # 0 /\ line.n = 0

\* decoded.startswith("notify") / decoded.startswith("error")
StartsWithNotify(line) == line.words[1].k \in NotifyTypes
StartsWithError(line) == line.words[1].k = "error"

\* int(text) for a string of decimal digits
Digit(ch) == CHOOSE d \in 0..9 : DigitChars[d + 1] = ch
RECURSIVE ParseInt(_)
ParseInt(ds) ==
  IF ds = <<>> THEN 0
  ELSE 10 * ParseInt(SubSeq(ds, 1, Len(ds) - 1)) + Digit(ds[Len(ds)])

\* types.py TS3ErrorCode: the ids the lookup table has a named code for
MappedErrorIds == {512, 1024}
UNDEFINED == [named |-> FALSE, id |-> 0]

\* TS3ErrorCode(error_id), and UNDEFINED where it raises ValueError
ErrorCode(error_id) ==
  IF error_id \in MappedErrorIds THEN [named |-> TRUE, id |-> error_id] ELSE UNDEFINED

\* exceptions.py TS3QueryError.__init__; src is the ghost owner of the line
TS3QueryErrorRaw(error_id, message, src) ==
  [error_id |-> error_id, error_message |-> message, cmd |-> src,
   error_code |-> ErrorCode(error_id)]

TS3QueryError(error_id, message, src) ==
  [error_id |-> error_id, error_message |-> unescape(message), cmd |-> src,
   error_code |-> ErrorCode(error_id)]

\* _parse_error: scan the parts after "error" for id= and msg=
RECURSIVE ScanError(_, _, _, _)
ScanError(words, i, error_id, error_msg) ==
  IF i > Len(words) THEN <<error_id, error_msg>>
  ELSE IF words[i].eq /\ words[i].k = "id"
       THEN ScanError(words, i + 1, ParseInt(words[i].v), error_msg)
       ELSE IF words[i].eq /\ words[i].k = "msg"
            THEN ScanError(words, i + 1, error_id, words[i].v)
            ELSE ScanError(words, i + 1, error_id, error_msg)

ParseError(line) ==
  LET r == ScanError(line.words, 2, 0, MsgOk)
  IN IF r[1] # 0 THEN Some(TS3QueryError(r[1], r[2], line.cmd)) ELSE None

\* ------------------------------------------------------------- events.py
\* A field map (dict[str, str]) is a function from its keys to their values.
Get(data, key, default) == IF key \in DOMAIN data THEN data[key] ELSE default

\* _int(value, default): int(value), or default when int raises ValueError
IsDecimal(text) ==
  LET ds == IF text # <<>> /\ Head(text) = "-" THEN Tail(text) ELSE text
  IN ds # <<>> /\ \A i \in DOMAIN ds : \E d \in DOMAIN DigitChars : DigitChars[d] = ds[i]
IntOr(text, default) ==
  IF ~IsDecimal(text) THEN default
  ELSE IF Head(text) = "-" THEN 0 - ParseInt(Tail(text)) ELSE ParseInt(text)
IntField(data, key) == IntOr(Get(data, key, <<"-", "1">>), 0 - 1)

\* _bool(value)
BoolField(data, key) == Get(data, key, <<"0">>) = <<"1">>

\* the test that tells the two kinds of notifyclientmoved apart
MovedByOtherNonEmpty(data) == Get(data, "invokerid", <<>>) # <<>>

MovedByOther(data) == "invokerid" \in DOMAIN data

\* known_keys of the notifyserveredited case
known_keys_without_name == {"reasonid", "invokerid", "invokeruid"}

known_keys == {"reasonid", "invokerid", "invokeruid", "invokername"}

\* parse_event(event_type, data): the event, or None for an unknown type
parse_event(event_type, data) ==
  CASE event_type = "notifytextmessage" ->
         Some([class |-> "TextMessageEvent", raw_data |-> data,
               target_mode |->
                 \* TargetMode(mode_val), PRIVATE where it raises ValueError
                 LET mode_val == IntOr(Get(data, "targetmode", <<"1">>), 1)
                 IN CASE mode_val = 1 -> "PRIVATE" [] mode_val = 2 -> "CHANNEL"
                      [] mode_val = 3 -> "SERVER" [] OTHER -> "PRIVATE",
               message |-> Get(data, "msg", <<>>),
               invoker_id |-> IntField(data, "invokerid"),
               invoker_name |-> Get(data, "invokername", <<>>),
               invoker_uid |-> Get(data, "invokeruid", <<>>),
               target |-> IF "target" \in DOMAIN data
                          THEN Some(IntOr(data["target"], 0 - 1)) ELSE None])
    [] event_type = "notifycliententerview" ->
         Some([class |-> "ClientEnteredEvent", raw_data |-> data,
               client_id |-> IntField(data, "clid"),
               client_name |-> Get(data, "client_nickname", <<>>),
               client_uid |-> Get(data, "client_unique_identifier", <<>>),
               client_dbid |-> IntField(data, "client_database_id"),
               target_channel_id |-> IntField(data, "ctid"),
               from_channel_id |-> IntField(data, "cfid"),
               reason_id |-> IntField(data, "reasonid"),
               client_description |-> Get(data, "client_description", <<>>),
               client_country |-> Get(data, "client_country", <<>>),
               client_away |-> BoolField(data, "client_away"),
               client_away_message |-> Get(data, "client_away_message", <<>>),
               client_servergroups |-> Get(data, "client_servergroups", <<>>),
               client_input_muted |-> BoolField(data, "client_input_muted"),
               client_output_muted |-> BoolField(data, "client_output_muted"),
               client_is_recording |-> BoolField(data, "client_is_recording")])
    [] event_type = "notifyclientleftview" ->
         Some([class |-> "ClientLeftEvent", raw_data |-> data,
               client_id |-> IntField(data, "clid"),
               target_channel_id |-> IntField(data, "ctid"),
               from_channel_id |-> IntField(data, "cfid"),
               reason_id |-> IntField(data, "reasonid"),
               reason_message |-> Get(data, "reasonmsg", <<>>)])
    [] event_type = "notifyclientmoved" ->
         IF MovedByOther(data)
         THEN Some([class |-> "ClientMovedEvent", raw_data |-> data,
                    client_id |-> IntField(data, "clid"),
                    target_channel_id |-> IntField(data, "ctid"),
                    reason_id |-> IntField(data, "reasonid"),
                    invoker_id |-> IntField(data, "invokerid"),
                    invoker_name |-> Get(data, "invokername", <<>>),
                    invoker_uid |-> Get(data, "invokeruid", <<>>)])
         ELSE Some([class |-> "ClientMovedSelfEvent", raw_data |-> data,
                    client_id |-> IntField(data, "clid"),
                    target_channel_id |-> IntField(data, "ctid"),
                    reason_id |-> IntField(data, "reasonid")])
    [] event_type = "notifychanneledited" ->
         Some([class |-> "ChannelEditedEvent", raw_data |-> data,
               channel_id |-> IntField(data, "cid"),
               invoker_id |-> IntField(data, "invokerid"),
               invoker_name |-> Get(data, "invokername", <<>>),
               invoker_uid |-> Get(data, "invokeruid", <<>>),
               reason_id |-> IntField(data, "reasonid"),
               channel_topic |-> Get(data, "channel_topic", <<>>)])
    [] event_type = "notifychanneldescriptionchanged" ->
         Some([class |-> "ChannelDescriptionEditedEvent", raw_data |-> data,
               channel_id |-> IntField(data, "cid")])
    [] event_type = "notifyserveredited" ->
         Some([class |-> "ServerEditedEvent", raw_data |-> data,
               invoker_id |-> IntField(data, "invokerid"),
               invoker_name |-> Get(data, "invokername", <<>>),
               invoker_uid |-> Get(data, "invokeruid", <<>>),
               reason_id |-> IntField(data, "reasonid"),
               changed_properties |->
                 [k \in DOMAIN data \ known_keys |-> data[k]]])
    [] OTHER -> None

\* ------------------------------------------------- lines that make it raise
\* the body of the try block of _receive_loop raises an Exception:
\* line.decode("utf-8") raises UnicodeDecodeError on a byte that is not valid
\* UTF-8, or int(part[3:]) in _parse_error raises ValueError
Raises(line) ==
  \/ \E i \in DOMAIN line.words : line.words[i].k = "0xFF"
  \/ /\ StartsWithError(line)
     /\ \E i \in 2..Len(line.words) :
          /\ line.words[i].eq /\ line.words[i].k = "id"
          /\ ~IsDecimal(line.words[i].v)

\* ------------------------------------------------------------ _parse_notify
\* the field map _parse_notify builds from the parts after the event type:
\* the loop of _parse_notify over the parts after the event type: a part
\* with "=" puts its unescaped value under its key, a later part overwriting
\* an earlier one with the same key
RECURSIVE NotifyDataFrom(_, _)
NotifyDataFrom(data, parts) ==
  IF parts = <<>> THEN data
  ELSE NotifyDataFrom(IF Head(parts).eq
                      THEN DictPut(data, Head(parts).k, unescape(Head(parts).v))
                      ELSE data,
                      Tail(parts))

\* the dictionary _parse_notify has filled after the loop
NotifyData(words) == NotifyDataFrom([k \in {} |-> <<>>], Tail(words))

\* _parse_notify: the event parse_event makes of the line (kept with its type
\* and the parts of the line), or None for an unknown type
ParseNotifyAny(line) == Some([type |-> line.words[1].k, raw |-> line.words])

ParseNotify(line) ==
  IF \E data \in {NotifyData(line.words)} : parse_event(line.words[1].k, data) # None
  THEN Some([type |-> line.words[1].k, raw |-> line.words])
  ELSE None


\* b"".join(lines): the parts of all lines, line boundaries gone
RECURSIVE Join(_)
Join(lines) == IF lines = <<>> THEN <<>> ELSE Head(lines).words \o Join(Tail(lines))

\* the bytes of a line as _read_line returns them
KeyClientId == <<"c", "l", "i", "e", "n", "t", "_", "i", "d">>
KeyClientAway == <<"c", "l", "i", "e", "n", "t", "_", "a", "w", "a", "y">>
NameBytes(k) ==
  CASE k = "client_id" -> KeyClientId
    [] k = "clid" -> <<"c", "l", "i", "d">>
    [] k = "error" -> <<"e", "r", "r", "o", "r">>
    [] k = "id" -> <<"i", "d">>
    [] k = "msg" -> <<"m", "s", "g">>
    [] k = "TS3" -> <<"T", "S", "3">>
    [] k = "Welcome" -> <<"W", "e", "l", "c", "o", "m", "e">>
    [] k = "notifycliententerview" ->
         <<"n", "o", "t", "i", "f", "y", "c", "l", "i", "e", "n", "t",
           "e", "n", "t", "e", "r", "v", "i", "e", "w">>
    [] k = "notifyunknownevent" ->
         <<"n", "o", "t", "i", "f", "y", "u", "n", "k", "n", "o", "w", "n",
           "e", "v", "e", "n", "t">>
LineBytes(line) ==
  JoinWith([i \in DOMAIN line.words |->
              NameBytes(line.words[i].k)
              \o (IF line.words[i].eq THEN <<"=">> \o line.words[i].v ELSE <<>>)],
           <<" ">>)

\* b"".join(lines) on the bytes of the lines
RECURSIVE JoinBytes(_)
JoinBytes(lines) ==
  IF lines = <<>> THEN <<>> ELSE Head(lines) \o JoinBytes(Tail(lines))

\* bytes.decode("utf-8")
RECURSIVE DecodeUtf8(_)
DecodeUtf8(bytes) ==
  IF bytes = <<>> THEN <<>>
  ELSE IF Len(bytes) >= 2 /\ bytes[1] = "0xC3" /\ bytes[2] = "0xA4"
       THEN <<"U+00E4">> \o DecodeUtf8(SubSeq(bytes, 3, Len(bytes)))
       ELSE <<Head(bytes)>> \o DecodeUtf8(Tail(bytes))

\* command_wrapper after its _send returned resp: a dict, a list or None
WrapperValue(resp) ==
  IF resp # <<>>
  THEN LET parsed == parse_response_to_list(DecodeUtf8(resp))
       IN IF Len(parsed) = 1 THEN Some([type |-> "dict", v |-> parsed[1]])
          ELSE Some([type |-> "list", v |-> parsed])
  ELSE None

\* command_wrapper given how its _send ended: an exception of _send leaves
\* the wrapper as it is, a returned value is parsed
command_wrapper(o) ==
  IF o.kind = "returned"
  THEN [kind |-> "returned",
        value |-> WrapperValue(JoinBytes([i \in DOMAIN o.lines |-> LineBytes(o.lines[i])]))]
  ELSE [kind |-> o.kind, value |-> None]

\* the "connected" property
ConnectedProperty(flag, closingFlag) == flag /\ ~closingFlag

\* -------------------------------------------------------------------- state
VARIABLES
  writer,            \* self._writer is set (the reader is set with it)
  connected,         \* self._connected
  closing,           \* self._closing
  recv_task,         \* none | running | cancelling | cancelled | timeout | eof | finished
  keepalive_task,    \* none | running | cancelling | cancelled
  old_keepalive,     \* the keepalive task an earlier start_keepalive created and
                     \* self._keepalive_task no longer refers to: none | running | finished
  send_lock,         \* asyncio.Lock: [locked_by |-> task or "none", waiters |-> FIFO]
  pending_response,  \* self._pending_response
  response_error,    \* self._response_error (None or one TS3QueryError)
  event_queue,       \* self._event_queue
  pc,                \* where each task is inside _send
  cmdOf,             \* ghost: ticket of the call each task is in
  queued,            \* ghost: the tasks whose present call had to wait for the lock
  connPc,            \* where connect() is
  closePc,           \* where close() is
  evPc,              \* where the consumer of events() is
  delivered,         \* events yielded by events()
  stream,            \* the TCP stream: none | open | eof (ended by the peer) | closed
  srvq,              \* server: commands received whose terminal line was not read yet
  srvData,           \* server: data lines already read of the response being read
  extraSent,         \* server: data and notification lines read so far
  nextCmd,           \* ghost: next call ticket (tickets are given in call order)
  lastWrite,         \* ghost: ticket of the command written last
  rx,                \* ghost: summary of the lines the receive loop routed
                     \*        while the command in flight was in flight
  last,              \* ghost: the call that ended in the step just taken, if any
  anyTimeout,        \* ghost: some call has ended with TS3TimeoutError
  pure,              \* a pure helper applied outside any connection: the functions
                     \* applied so far (fn), the input (arg) and the latest result (ret)
  timer              \* ghost, per task inside the wait of _send: the time since its
                     \* wait began (since_wait) and since the wait_for it is in
                     \* was called (since_arm)

conn == <<writer, connected, closing, recv_task, keepalive_task, old_keepalive>>
resp == <<pending_response, response_error>>
sendv == <<send_lock, pc, cmdOf, queued, nextCmd, lastWrite, anyTimeout>>
env == <<stream, srvq, srvData, extraSent>>
evs == <<event_queue, evPc, delivered>>
vars == <<conn, resp, sendv, env, evs, connPc, closePc, rx, last, pure, timer>>

\* self._timeout, in units of the clock of the timed specification
Period == 2

\* asyncio.wait_for(self._response_ready.wait(), timeout=self._timeout): each
\* call of wait_for starts a new period; outside the wait nothing is timed
TimerStep ==
  timer' = [t \in Tasks |->
              IF pc'[t] = "waiting" /\ pc[t] = "notified" THEN [timer[t] EXCEPT !.since_arm = 0]
              ELSE IF pc'[t] \in {"waiting", "notified"}
                      /\ pc[t] \in {"waiting", "notified"} THEN timer[t]
              ELSE [since_wait |-> 0, since_arm |-> 0]]

\* how a call ended: what it raised, or the bytes it returned (lines is the
\* ghost list of the lines the bytes were joined from)
Raised(kind) == [kind |-> kind, result |-> <<>>, lines |-> <<>>, error |-> None]
RaisedQuery(err) == [kind |-> "TS3QueryError", result |-> <<>>, lines |-> <<>>, error |-> err]
Returned(lines) == [kind |-> "returned", result |-> Join(lines), lines |-> lines, error |-> None]

\* Nothing routed yet for the command in flight.  term: its own terminal
\* line, if routed; early: that line was routed before the caller started to
\* wait; error: some error line was routed; data: the number of other
\* response lines routed; notify: the type of the notification routed last
\* and the number of response lines routed before it; lost: the command was
\* written after the receive loop had ended on a read failure; failed: it was
\* written after connect() had raised; dropped: the number of lines the
\* receive loop dropped because handling them raised.
RxNone ==
  [term |-> None, early |-> FALSE, error |-> FALSE, data |-> 0, notify |-> None,
   lost |-> FALSE, failed |-> FALSE, dropped |-> 0]

\* the summary after line was routed while command c was in flight, its
\* caller being at position p of _send
Routed(r, line, c, p) ==
  IF StartsWithNotify(line)
  THEN [r EXCEPT !.notify = Some([type |-> line.words[1].k, at |-> r.data])]
  ELSE IF StartsWithError(line)
  THEN [r EXCEPT !.error = TRUE,
                 !.term = IF IsTerminal(line) /\ line.cmd = c THEN Some(line) ELSE @,
                 !.early = IF IsTerminal(line) /\ line.cmd = c THEN p = "drain" ELSE @]
  ELSE [r EXCEPT !.data = @ + 1]

\* ghost record of an ended call: its task, ticket (0: no command was built), outcome,
\* whether the command had been written, whether the call had to wait for
\* the lock, what was routed while it was in flight, and whether an earlier
\* call had timed out
Ended(t, c, o, w) ==
  [task |-> t, cmd |-> c, o |-> o, written |-> w, queued |-> t \in queued,
   rx |-> IF w THEN rx ELSE RxNone,
   afterTimeout |-> anyTimeout]

\* no call ended in the step just taken
NoCall ==
  [task |-> "none", cmd |-> 0, o |-> Raised("none"), written |-> FALSE, queued |-> FALSE,
   rx |-> RxNone, afterTimeout |-> FALSE]

\* no helper applied to input a yet
Unapplied(a) == [fn |-> <<>>, arg |-> a, ret |-> None]

\* the connection after __init__
Constructed ==
  /\ writer = FALSE /\ connected = FALSE /\ closing = FALSE
  /\ recv_task = "none" /\ keepalive_task = "none" /\ old_keepalive = "none"
  /\ send_lock = [locked_by |-> "none", waiters |-> <<>>]
  /\ pending_response = <<>> /\ response_error = None /\ event_queue = <<>>
  /\ pc = [t \in Tasks |-> "idle"] /\ cmdOf = [t \in Tasks |-> 0] /\ queued = {}
  /\ connPc = "new" /\ closePc = "none" /\ evPc = "none" /\ delivered = <<>>
  /\ stream = "none" /\ srvq = <<>> /\ srvData = 0 /\ extraSent = 0
  /\ nextCmd = 1 /\ lastWrite = 0 /\ rx = RxNone
  /\ last = NoCall
  /\ anyTimeout = FALSE
  /\ timer = [t \in Tasks |-> [since_wait |-> 0, since_arm |-> 0]]

Init == Constructed /\ pure = Unapplied(None)

\* A task takes steps unless it is the keepalive task and not running.
Active(t) == t \in Callers \/ keepalive_task = "running"

\* ------------------------------------------------------ server and network
\* The server answers the commands in the order it received them: for each,
\* data lines and then one terminal line.  It may send a
\* notification at any point.  A line is sent when the client reads it.
Terminals == {<<IdOk, MsgOk>>, <<IdInvalid, MsgInvalid>>}

\* the first two lines a server sends: the usual banner and welcome, or
\* lines of any other content
GreetingLines ==
  {GreetingLine("TS3"), GreetingLine("Welcome"),
   ErrorLine(0, IdInvalid, MsgInvalid), NotifyLine("notifycliententerview")}

ServerLines ==
  (IF srvq # <<>> /\ extraSent < MaxExtra
   THEN {DataLine(Head(srvq), srvData + 1)} ELSE {})
  \cup (IF srvq # <<>>
        THEN {ErrorLine(Head(srvq), tm[1], tm[2]) : tm \in Terminals} ELSE {})
  \cup (IF extraSent < MaxExtra /\ connPc = "done"
        THEN {NotifyLine(type) : type \in NotifyTypes} ELSE {})

\* the peer ends the stream
ServerDisconnect ==
  /\ stream = "open"
  /\ stream' = "eof"
  /\ UNCHANGED <<conn, resp, sendv, srvq, srvData, extraSent, evs, connPc, closePc, rx>>
  /\ last' = NoCall
  /\ UNCHANGED pure
  /\ TimerStep

\* ------------------------------------------------------------------ connect
\* connect(): await open_connection
ConnectCall ==
  /\ connPc = "new"
  /\ connPc' = "opening"
  /\ UNCHANGED <<conn, resp, sendv, env, evs, closePc, rx>>
  /\ last' = NoCall
  /\ UNCHANGED pure
  /\ TimerStep

\* open_connection succeeded: reader and writer are set; the server side of
\* the new socket has received nothing yet
ConnectOpened ==
  /\ connPc = "opening"
  /\ writer' = TRUE
  /\ stream' = "open"
  /\ srvq' = <<>> /\ srvData' = 0
  /\ connPc' = "greeting1"
  /\ UNCHANGED <<connected, closing, recv_task, keepalive_task, old_keepalive, resp, sendv,
                 extraSent, evs, closePc, rx>>
  /\ last' = NoCall
  /\ UNCHANGED pure
  /\ TimerStep

\* open_connection timed out or was refused: TS3TimeoutError / TS3ConnectionError
ConnectRefused ==
  /\ connPc = "opening"
  /\ connPc' = "failed"
  /\ UNCHANGED <<conn, resp, sendv, env, evs, closePc, rx>>
  /\ last' = NoCall
  /\ UNCHANGED pure
  /\ TimerStep

\* connect() drops the value of its two _read_line() calls
GreetingRouted(line, pending) == Append(pending, line)

GreetingDropped(line, pending) == pending

\* one _read_line() of connect(); after the second one the flag is set and
\* the receive loop is started (it ends at its first loop test when
\* self._closing is already set)
ConnectReadGreeting(line) ==
  /\ connPc \in {"greeting1", "greeting2"}
  /\ stream = "open"
  /\ IF connPc = "greeting1"
     THEN /\ connPc' = "greeting2"
          /\ UNCHANGED <<connected, recv_task>>
     ELSE /\ connPc' = "done"
          /\ connected' = TRUE
          /\ recv_task' = IF closing THEN "finished" ELSE "running"
  /\ pending_response' = GreetingDropped(line, pending_response)
  /\ UNCHANGED <<writer, closing, keepalive_task, old_keepalive, response_error, sendv,
                 stream, srvq, srvData, extraSent, evs, closePc, rx>>
  /\ last' = NoCall
  /\ UNCHANGED pure
  /\ TimerStep

\* _read_line() of connect() raises (read timeout or stream closed)
ConnectGreetingFail ==
  /\ connPc \in {"greeting1", "greeting2"}
  /\ connPc' = "failed"
  /\ UNCHANGED <<conn, resp, sendv, env, evs, closePc, rx>>
  /\ last' = NoCall
  /\ UNCHANGED pure
  /\ TimerStep

\* -------------------------------------------------------------------- _send
\* asyncio.Lock.acquire without waiting: unlocked and nobody queued
CanAcquireNoLock == TRUE

CanAcquire == send_lock.locked_by = "none" /\ send_lock.waiters = <<>>

\* the loop condition of _send: while self._response_error is None
MustWaitUntilAnyLine(err, pending) == err = None /\ pending = <<>>

MustWait(err, pending) == err = None

\* the first test of the loop condition, made after drain() and before any
\* wait()
MustWaitFirstAlways(err, pending) == TRUE

MustWaitFirst(err, pending) == MustWait(err, pending)

\* self._pending_response.clear() at the start of a command
ClearedKeep(pending) == pending

Cleared(pending) == <<>>

\* the send lock after the holder leaves "async with self._send_lock"
ReleasedKeep(lock) == lock

Released(lock) == [lock EXCEPT !.locked_by = "none"]

RemoveWaiter(q, t) == SelectSeq(q, LAMBDA x : x # t)

\* Lock acquired: clear the response state, write the command, await drain.
\* A command written to a stream that is no longer open does not reach the
\* server.
AcquireAndWrite(t, c) ==
  /\ send_lock' = [locked_by |-> t, waiters |-> RemoveWaiter(send_lock.waiters, t)]
  /\ pending_response' = Cleared(pending_response)
  /\ response_error' = None
  /\ srvq' = IF stream = "open" THEN Append(srvq, c) ELSE srvq
  /\ lastWrite' = c
  /\ rx' = [RxNone EXCEPT !.lost = (recv_task = "eof"), !.failed = (connPc = "failed")]
  /\ pc' = [pc EXCEPT ![t] = IF stream = "open" THEN "drain" ELSE "drain_lost"]

\* _send on a connection whose writer is not set: TS3ConnectionError
NotConnectedUnguarded == Raised("AttributeError")

NotConnected == Raised("TS3ConnectionError")

SendNotConnected(t) ==
  /\ Active(t) /\ pc[t] = "idle"
  /\ ~writer
  /\ last' = Ended(t, 0, NotConnected, FALSE)
  /\ UNCHANGED <<conn, resp, send_lock, pc, cmdOf, queued, nextCmd, lastWrite,
                 anyTimeout, env, evs, connPc, closePc, rx>>
  /\ UNCHANGED pure
  /\ TimerStep

\* _send up to its first suspension: the lock is taken and the command
\* written, or the task queues for the lock
SendCall(t) ==
  /\ Active(t) /\ pc[t] = "idle" /\ nextCmd <= MaxCmds
  /\ writer
  /\ cmdOf' = [cmdOf EXCEPT ![t] = nextCmd]
  /\ nextCmd' = nextCmd + 1
  /\ IF CanAcquire
     THEN /\ AcquireAndWrite(t, nextCmd)
          /\ UNCHANGED queued
     ELSE /\ send_lock' = [send_lock EXCEPT !.waiters = Append(@, t)]
          /\ pc' = [pc EXCEPT ![t] = "lockwait"]
          /\ queued' = queued \cup {t}
          /\ UNCHANGED <<resp, srvq, lastWrite, rx>>
  /\ last' = NoCall
  /\ UNCHANGED <<conn, anyTimeout, stream, srvData, extraSent, evs,
                 connPc, closePc>>
  /\ UNCHANGED pure
  /\ TimerStep

\* the first waiter of the released lock runs
LockGranted(t) ==
  /\ Active(t) /\ pc[t] = "lockwait"
  /\ send_lock.locked_by = "none"
  /\ send_lock.waiters # <<>> /\ Head(send_lock.waiters) = t
  /\ AcquireAndWrite(t, cmdOf[t])
  /\ last' = NoCall
  /\ UNCHANGED <<conn, cmdOf, queued, nextCmd, anyTimeout, stream,
                 srvData, extraSent, evs, connPc, closePc>>
  /\ UNCHANGED pure
  /\ TimerStep

\* _keepalive_loop after the whoami of one iteration ended with outcome o:
\* CancelledError breaks the loop, any other exception is logged and the
\* loop goes on
AfterIterationBreak(o) == "cancelled"

AfterIteration(o) == IF o.kind = "CancelledError" THEN "cancelled" ELSE "running"

\* the call of task t ends with outcome o; both locks are released
EndCall(t, o) ==
  /\ keepalive_task' = IF t = Keepalive THEN AfterIteration(o) ELSE keepalive_task
  /\ UNCHANGED old_keepalive
  /\ last' = Ended(t, cmdOf[t], o, TRUE)
  /\ anyTimeout' = (anyTimeout \/ o.kind = "TS3TimeoutError")
  /\ send_lock' = Released(send_lock)
  /\ pc' = [pc EXCEPT ![t] = "idle"]
  /\ cmdOf' = [cmdOf EXCEPT ![t] = 0]
  /\ queued' = queued \ {t}
  /\ rx' = RxNone

\* "async with self._response_ready: while self._response_error is None":
\* wait again, or take the error slot and raise, or return the joined lines
CheckResponseIf(t, mustWait) ==
  IF mustWait
  THEN /\ pc' = [pc EXCEPT ![t] = "waiting"]
       /\ last' = NoCall
       /\ UNCHANGED <<resp, send_lock, cmdOf, queued, anyTimeout, rx, keepalive_task, old_keepalive>>
  ELSE /\ response_error' = None
       /\ IF response_error # None /\ response_error[1].error_id # 0
          THEN /\ EndCall(t, RaisedQuery(response_error))
               /\ UNCHANGED pending_response
          ELSE /\ EndCall(t, Returned(pending_response))
               /\ pending_response' = <<>>

CheckResponse(t) == CheckResponseIf(t, MustWait(response_error, pending_response))

\* drain() is over: enter the wait for the response
DrainDone(t) ==
  /\ Active(t) /\ pc[t] \in {"drain", "drain_lost"}
  /\ CheckResponseIf(t, MustWaitFirst(response_error, pending_response))
  /\ UNCHANGED <<writer, connected, closing, recv_task, nextCmd, lastWrite, env,
                 evs, connPc, closePc>>
  /\ UNCHANGED pure
  /\ TimerStep

\* drain() raises on a lost connection (ConnectionResetError, an OSError)
DrainFail(t) ==
  /\ Active(t) /\ pc[t] = "drain_lost"
  /\ EndCall(t, Raised("ConnectionResetError"))
  /\ UNCHANGED <<writer, connected, closing, recv_task, resp, nextCmd, lastWrite,
                 env, evs, connPc, closePc>>
  /\ UNCHANGED pure
  /\ TimerStep

\* the condition was notified: re-evaluate the loop condition
Resume(t) ==
  /\ Active(t) /\ pc[t] = "notified"
  /\ CheckResponse(t)
  /\ UNCHANGED <<writer, connected, closing, recv_task, nextCmd, lastWrite, env,
                 evs, connPc, closePc>>
  /\ UNCHANGED pure
  /\ TimerStep

\* wait_for expired before a notification: TS3TimeoutError
Timeout(t) ==
  /\ Active(t) /\ pc[t] = "waiting"
  /\ EndCall(t, Raised("TS3TimeoutError"))
  /\ UNCHANGED <<writer, connected, closing, recv_task, resp, nextCmd, lastWrite,
                 env, evs, connPc, closePc>>
  /\ UNCHANGED pure
  /\ TimerStep

\* ------------------------------------------------------------ receive loop
\* the pending-response buffer after the receive loop routed one line
RoutePendingNoNotifyCheck(line, pending) ==
  IF StartsWithError(line) THEN pending ELSE Append(pending, line)

RoutePending(line, pending) ==
  IF StartsWithNotify(line) THEN pending
  ELSE IF StartsWithError(line) THEN pending
  ELSE Append(pending, line)

\* the pending-error slot after the receive loop routed one line
RouteError(line, err) ==
  IF StartsWithNotify(line) THEN err
  ELSE IF StartsWithError(line) THEN ParseError(line)
  ELSE err

\* the event queue after the receive loop routed one line
RouteEventDrop(line, q) == q

RouteEvent(line, q) ==
  IF StartsWithNotify(line) /\ ParseNotify(line) # None
  THEN Append(q, ParseNotify(line)[1])
  ELSE q

\* self._response_ready.notify_all()
NotifyNobody(p) == p

NotifyAll(p) == [t \in Tasks |-> IF p[t] = "waiting" THEN "notified" ELSE p[t]]

\* a command is in flight: written, and its call has not ended
InFlight(t) == pc[t] \in {"drain", "drain_lost", "waiting", "notified"}

\* one iteration of _receive_loop that read the line the server sent next;
\* the loop condition "while not self._closing" is evaluated after the line
\* is routed
Routes(line) ==
  /\ recv_task = "running"
  /\ stream = "open"
  /\ pending_response' = RoutePending(line, pending_response)
  /\ response_error' = RouteError(line, response_error)
  /\ event_queue' = RouteEvent(line, event_queue)
  /\ pc' = IF StartsWithNotify(line) THEN pc ELSE NotifyAll(pc)
  /\ rx' = IF \E t \in Tasks : InFlight(t) /\ cmdOf[t] = lastWrite
            THEN Routed(rx, line, lastWrite,
                        pc[CHOOSE t \in Tasks : InFlight(t) /\ cmdOf[t] = lastWrite])
            ELSE rx
  /\ recv_task' = IF closing THEN "finished" ELSE "running"
  /\ last' = NoCall
  /\ UNCHANGED <<writer, connected, closing, keepalive_task, old_keepalive, send_lock, cmdOf,
                 queued, nextCmd, lastWrite, anyTimeout, stream, evPc, delivered,
                 connPc, closePc>>
  /\ UNCHANGED pure
  /\ TimerStep

\* the line is one the server sent in its turn
RouteLine(line) ==
  /\ Routes(line)
  /\ srvq' = IF IsTerminal(line) THEN Tail(srvq) ELSE srvq
  /\ srvData' = IF IsTerminal(line) THEN 0
                ELSE IF line.cmd # 0 THEN srvData + 1 ELSE srvData
  /\ extraSent' = IF IsTerminal(line) THEN extraSent ELSE extraSent + 1

ReceiveLine == \E line \in ServerLines : RouteLine(line)

\* a server that does not keep to the protocol sends "error" with no id at
\* any time, any number of times
MalformedLine == [words |-> <<Bare("error")>>, cmd |-> 0, n |-> 0]

ReceiveMalformed ==
  /\ connPc = "done"
  /\ Routes(MalformedLine)
  /\ UNCHANGED <<srvq, srvData, extraSent>>

\* _read_line times out on an idle stream: TS3TimeoutError is a
\* TS3ConnectionError, the loop breaks
ReceiveTimeout ==
  /\ recv_task = "running"
  /\ stream = "open"
  /\ recv_task' = "timeout"
  /\ UNCHANGED <<writer, connected, closing, keepalive_task, old_keepalive, resp, sendv, env, evs,
                 connPc, closePc, rx>>
  /\ last' = NoCall
  /\ UNCHANGED pure
  /\ TimerStep

\* the stream ended: IncompleteReadError -> TS3ConnectionError, the loop breaks
ReceiveEOF ==
  /\ recv_task = "running"
  /\ stream # "open"
  /\ recv_task' = "eof"
  /\ UNCHANGED <<writer, connected, closing, keepalive_task, old_keepalive, resp, sendv, env, evs,
                 connPc, closePc, rx>>
  /\ last' = NoCall
  /\ UNCHANGED pure
  /\ TimerStep

\* close() cancelled the receive task: CancelledError, the loop breaks
ReceiveCancelled ==
  /\ recv_task = "cancelling"
  /\ recv_task' = "cancelled"
  /\ UNCHANGED <<writer, connected, closing, keepalive_task, old_keepalive, resp, sendv, env,
                 evs, connPc, closePc, rx>>
  /\ last' = NoCall
  /\ UNCHANGED pure
  /\ TimerStep

\* ---------------------------------------------------------------- keepalive
StartKeepalive ==
  /\ keepalive_task = "none"
  /\ closePc = "none"
  /\ keepalive_task' = "running"
  /\ UNCHANGED <<old_keepalive, writer, connected, closing, recv_task, resp, sendv, env, evs,
                 connPc, closePc, rx>>
  /\ last' = NoCall
  /\ UNCHANGED pure
  /\ TimerStep

\* the cancelled keepalive task gets CancelledError at its suspension point:
\* inside _send the locks it holds or waits for are given up
KeepaliveCancelled ==
  /\ keepalive_task = "cancelling"
  /\ keepalive_task' = AfterIteration(Raised("CancelledError"))
  /\ UNCHANGED old_keepalive
  /\ IF pc[Keepalive] = "idle"
     THEN UNCHANGED <<sendv, rx>> /\ last' = NoCall
     ELSE /\ last' = Ended(Keepalive, cmdOf[Keepalive], Raised("CancelledError"),
                          pc[Keepalive] # "lockwait")
          /\ send_lock' = IF pc[Keepalive] = "lockwait"
                          THEN [send_lock EXCEPT !.waiters = RemoveWaiter(@, Keepalive)]
                          ELSE Released(send_lock)
          /\ pc' = [pc EXCEPT ![Keepalive] = "idle"]
          /\ cmdOf' = [cmdOf EXCEPT ![Keepalive] = 0]
          /\ queued' = queued \ {Keepalive}
          /\ rx' = IF pc[Keepalive] = "lockwait" THEN rx ELSE RxNone
          /\ UNCHANGED <<nextCmd, lastWrite, anyTimeout>>
  /\ UNCHANGED <<writer, connected, closing, recv_task, resp, env, evs,
                 connPc, closePc>>
  /\ UNCHANGED pure
  /\ TimerStep

\* -------------------------------------------------------------------- close
\* close() from "if self._recv_task" on: cancel the receive task and await it
CancelReceive ==
  /\ recv_task' = IF recv_task = "running" THEN "cancelling" ELSE recv_task
  /\ closePc' = "await_recv"

\* close() up to its first suspension
CloseCall ==
  /\ closePc = "none"
  /\ closing' = TRUE
  /\ IF keepalive_task = "running"
     THEN /\ keepalive_task' = "cancelling"
          /\ closePc' = "await_keepalive"
          /\ UNCHANGED recv_task
     ELSE /\ CancelReceive
          /\ UNCHANGED keepalive_task
  /\ UNCHANGED <<writer, connected, old_keepalive, resp, sendv, env, evs, connPc, rx>>
  /\ last' = NoCall
  /\ UNCHANGED pure
  /\ TimerStep

CloseKeepaliveAwaited ==
  /\ closePc = "await_keepalive"
  /\ keepalive_task = "cancelled"
  /\ CancelReceive
  /\ UNCHANGED <<writer, connected, closing, keepalive_task, old_keepalive, resp, sendv, env,
                 evs, connPc, rx>>
  /\ last' = NoCall
  /\ UNCHANGED pure
  /\ TimerStep

\* the receive task is over: write quit, close the writer, clear the flag
CloseFinish ==
  /\ closePc = "await_recv"
  /\ recv_task \notin {"running", "cancelling"}
  /\ stream' = IF writer THEN "closed" ELSE stream
  /\ connected' = FALSE
  /\ closePc' = "closed"
  /\ UNCHANGED <<writer, closing, recv_task, keepalive_task, old_keepalive, resp, sendv,
                 srvq, srvData, extraSent, evs, connPc, rx>>
  /\ last' = NoCall
  /\ UNCHANGED pure
  /\ TimerStep

\* ------------------------------------------------- numbered notifications
\* what the server may send next, its notifications of a known type and
\* numbered: the clid of the k-th line the server sends besides terminal lines
\* is k
NumberedLines ==
  (ServerLines \ {NotifyLine(type) : type \in NotifyTypes})
  \cup (IF extraSent < MaxExtra /\ connPc = "done"
        THEN {[words |-> <<Bare("notifycliententerview"),
                           KV("clid", StrNat(extraSent + 1))>>,
               cmd |-> 0, n |-> 0]}
        ELSE {})

ReceiveNumbered == \E line \in NumberedLines : RouteLine(line)

\* ------------------------------------------------------- lines that raise
\* "except Exception": the exception is logged and the loop goes to its next
\* test of self._closing
AfterRaiseBreak(closingFlag) == "eof"

AfterRaise(closingFlag) == IF closingFlag THEN "finished" ELSE "running"

\* the receive loop reads a line and handling it raises: the assignment to the
\* buffer or the error slot and notify_all() are not reached
DropLine(line) ==
  /\ recv_task = "running"
  /\ stream = "open"
  /\ Raises(line)
  /\ recv_task' = AfterRaise(closing)
  /\ rx' = IF \E t \in Tasks : InFlight(t) /\ cmdOf[t] = lastWrite
            THEN [rx EXCEPT !.dropped = @ + 1] ELSE rx
  /\ last' = NoCall
  /\ UNCHANGED <<writer, connected, closing, keepalive_task, old_keepalive, resp, sendv,
                 stream, evs, connPc, closePc>>
  /\ UNCHANGED pure
  /\ TimerStep

\* what a server may send that makes the receive loop raise: the terminal
\* line of the command it answers with an id that is no integer, or a line
\* of undecodable bytes in place of a data line
UnparsableLines ==
  (IF srvq # <<>> THEN {ErrorLine(Head(srvq), <<"x">>, MsgOk)} ELSE {})
  \cup (IF srvq # <<>> /\ extraSent < MaxExtra
        THEN {[words |-> <<Bare("0xFF")>>, cmd |-> Head(srvq), n |-> srvData + 1]}
        ELSE {})

ReceiveUnparsable ==
  \E line \in UnparsableLines :
    /\ DropLine(line)
    /\ srvq' = IF IsTerminal(line) THEN Tail(srvq) ELSE srvq
    /\ srvData' = IF IsTerminal(line) THEN 0 ELSE srvData + 1
    /\ extraSent' = IF IsTerminal(line) THEN extraSent ELSE extraSent + 1

\* ------------------------------------------------------------- timed waits
\* one unit of time passes while some task waits; a wait_for whose period is
\* over expires before more time passes, and a notified task runs before any
\* time passes
Tick ==
  /\ \E t \in Tasks : pc[t] = "waiting"
  /\ \A t \in Tasks : pc[t] # "notified"
  /\ \A t \in Tasks : pc[t] = "waiting" => timer[t].since_arm < Period
  /\ timer' = [t \in Tasks |->
                IF pc[t] = "waiting"
                THEN [since_wait |-> timer[t].since_wait + 1,
                      since_arm |-> timer[t].since_arm + 1]
                ELSE timer[t]]
  /\ last' = NoCall
  /\ UNCHANGED <<conn, resp, sendv, env, evs, connPc, closePc, rx, pure>>

\* wait_for raises asyncio.TimeoutError when its period is over
TimedTimeout(t) ==
  /\ timer[t].since_arm = Period
  /\ Timeout(t)

\* ------------------------------------------------------------------- events
\* the loop test of events(): while self._connected and not self._closing
StillIteratingWhileConnected(flag, closingFlag) == flag

StillIterating(flag, closingFlag) == flag /\ ~closingFlag

\* events() is called on a connected connection (on any other the iteration
\* is empty): the loop test passes and the first pull waits on the queue
EventsCall ==
  /\ evPc = "none"
  /\ StillIterating(connected, closing)
  /\ evPc' = "iterating"
  /\ UNCHANGED <<conn, resp, sendv, env, event_queue, delivered, connPc, closePc, rx>>
  /\ last' = NoCall
  /\ UNCHANGED pure
  /\ TimerStep

\* self._event_queue.get() on a queue that is not empty: the event it
\* returns and the queue it leaves
QueueGetLast(q) == [event |-> q[Len(q)], rest |-> SubSeq(q, 1, Len(q) - 1)]

QueueGet(q) == [event |-> Head(q), rest |-> Tail(q)]

\* the pull gets an event and yields it; the consumer asks for the next one
\* and the loop test either starts the next pull or ends the iteration
EventsYield ==
  /\ evPc = "iterating"
  /\ event_queue # <<>>
  /\ delivered' = Append(delivered, QueueGet(event_queue).event)
  /\ event_queue' = QueueGet(event_queue).rest
  /\ evPc' = IF StillIterating(connected, closing) THEN "iterating" ELSE "ended"
  /\ UNCHANGED <<conn, resp, sendv, env, connPc, closePc, rx>>
  /\ last' = NoCall
  /\ UNCHANGED pure
  /\ TimerStep

\* the pull on the empty queue times out after 1.0 s and the loop test is
\* false: the iteration ends
EventsEnd ==
  /\ evPc = "iterating"
  /\ event_queue = <<>>
  /\ ~StillIterating(connected, closing)
  /\ evPc' = "ended"
  /\ UNCHANGED <<conn, resp, sendv, env, event_queue, delivered, connPc, closePc, rx>>
  /\ last' = NoCall
  /\ UNCHANGED pure
  /\ TimerStep

\* --------------------------------------------------------- repeated calls
\* connect() called again after it raised or after close() returned
ConnectAgain ==
  /\ connPc = "failed" \/ (connPc = "done" /\ closePc = "closed")
  /\ connPc' = "opening"
  /\ UNCHANGED <<conn, resp, sendv, env, evs, closePc, rx>>
  /\ last' = NoCall
  /\ UNCHANGED pure
  /\ TimerStep

\* start_keepalive() called again while the task of the earlier call sleeps:
\* self._keepalive_task is overwritten and the earlier task goes on
StartKeepaliveAgain ==
  /\ keepalive_task = "running" /\ pc[Keepalive] = "idle"
  /\ old_keepalive = "none"
  /\ closePc = "none"
  /\ old_keepalive' = "running"
  /\ UNCHANGED <<writer, connected, closing, recv_task, keepalive_task, resp, sendv,
                 env, evs, connPc, closePc, rx>>
  /\ last' = NoCall
  /\ UNCHANGED pure
  /\ TimerStep

\* the earlier keepalive task, which nobody cancels, comes to the loop test
\* "while not self._closing" after self._closing was set
OldKeepaliveEnd ==
  /\ old_keepalive = "running"
  /\ closing
  /\ old_keepalive' = "finished"
  /\ UNCHANGED <<writer, connected, closing, recv_task, keepalive_task, resp, sendv,
                 env, evs, connPc, closePc, rx>>
  /\ last' = NoCall
  /\ UNCHANGED pure
  /\ TimerStep

\* close() called again after it returned: both tasks are over, the writer
\* that is set now is closed and the flag is cleared
CloseAgain ==
  /\ closePc = "closed"
  /\ recv_task \notin {"running", "cancelling"}
  /\ stream' = IF writer THEN "closed" ELSE stream
  /\ connected' = FALSE
  /\ UNCHANGED <<writer, closing, recv_task, keepalive_task, old_keepalive, resp, sendv,
                 srvq, srvData, extraSent, evs, connPc, closePc, rx>>
  /\ last' = NoCall
  /\ UNCHANGED pure
  /\ TimerStep

\* -------------------------------------------------------------------- spec
Next ==
  \/ ConnectCall \/ ConnectOpened \/ ConnectRefused
  \/ \E line \in GreetingLines : ConnectReadGreeting(line)
  \/ ConnectGreetingFail
  \/ \E t \in Tasks : SendNotConnected(t)
  \/ \E t \in Tasks : SendCall(t)
  \/ \E t \in Tasks : LockGranted(t)
  \/ \E t \in Tasks : DrainDone(t)
  \/ \E t \in Tasks : DrainFail(t)
  \/ \E t \in Tasks : Resume(t)
  \/ \E t \in Tasks : Timeout(t)
  \/ ReceiveLine
  \/ ReceiveTimeout \/ ReceiveEOF \/ ReceiveCancelled
  \/ StartKeepalive \/ KeepaliveCancelled
  \/ CloseCall \/ CloseKeepaliveAwaited \/ CloseFinish
  \/ EventsCall \/ EventsYield \/ EventsEnd
  \/ ServerDisconnect

Spec == Init /\ [][Next]_vars

\* One connection, its callers and one consumer of events(), the
\* notifications of the server numbered in the order it sends them.
NumberedNext ==
  \/ ConnectCall \/ ConnectOpened
  \/ \E line \in GreetingLines : ConnectReadGreeting(line)
  \/ \E t \in Callers : SendCall(t) \/ DrainDone(t) \/ Resume(t) \/ Timeout(t)
  \/ ReceiveNumbered
  \/ EventsCall \/ EventsYield

NumberedSpec == Init /\ [][NumberedNext]_vars

\* One connection and its callers with a server that also sends lines the
\* receive loop cannot parse.
UnparsableNext ==
  \/ ConnectCall \/ ConnectOpened
  \/ \E line \in GreetingLines : ConnectReadGreeting(line)
  \/ \E t \in Callers : SendCall(t) \/ DrainDone(t) \/ Resume(t) \/ Timeout(t)
  \/ ReceiveLine \/ ReceiveUnparsable

UnparsableSpec == Init /\ [][UnparsableNext]_vars

\* One connection and its callers with the waits of _send timed.
TimedNext ==
  \/ ConnectCall \/ ConnectOpened
  \/ \E line \in GreetingLines : ConnectReadGreeting(line)
  \/ \E t \in Callers : SendCall(t) \/ DrainDone(t) \/ Resume(t) \/ TimedTimeout(t)
  \/ ReceiveLine \/ ReceiveTimeout
  \/ Tick

TimedSpec == Init /\ [][TimedNext]_vars

\* The callers' commands, close() and the consumer of events() with a
\* server that may send malformed lines without end and no keepalive task,
\* under the scheduling of the event loop: a task that can take its next
\* step takes it, a timer that stays armed fires, a drain ends, a cancelled
\* task gets its CancelledError, and the consumer of events() goes on
\* pulling.  Nothing is assumed of the server.
FairNext ==
  \/ ConnectCall \/ ConnectOpened \/ ConnectRefused
  \/ \E line \in GreetingLines : ConnectReadGreeting(line)
  \/ ConnectGreetingFail
  \/ \E t \in Callers : SendNotConnected(t)
  \/ \E t \in Callers : SendCall(t)
  \/ \E t \in Callers : DrainDone(t)
  \/ \E t \in Callers : DrainFail(t)
  \/ \E t \in Callers : Resume(t)
  \/ \E t \in Callers : Timeout(t)
  \/ ReceiveLine \/ ReceiveMalformed
  \/ ReceiveTimeout \/ ReceiveEOF \/ ReceiveCancelled
  \/ CloseCall \/ CloseFinish
  \/ EventsCall \/ EventsYield \/ EventsEnd
  \/ ServerDisconnect

Fairness ==
  /\ \A t \in Callers : WF_vars(DrainDone(t) \/ DrainFail(t))
  /\ \A t \in Callers : WF_vars(Resume(t))
  /\ \A t \in Callers : WF_vars(Timeout(t))
  /\ WF_vars(ReceiveCancelled)
  /\ WF_vars(CloseFinish)
  /\ WF_vars(EventsYield)
  /\ WF_vars(EventsEnd)

FairSpec == Init /\ [][FairNext]_vars /\ Fairness

\* The life cycle under repeated connect, close and start_keepalive calls;
\* the commands are those of the callers, the keepalive tasks only sleep
\* and nobody iterates events().
LifeNext ==
  \/ ConnectCall \/ ConnectAgain \/ ConnectOpened \/ ConnectRefused
  \/ \E line \in GreetingLines : ConnectReadGreeting(line)
  \/ ConnectGreetingFail
  \/ \E t \in Callers : SendNotConnected(t)
  \/ \E t \in Callers : SendCall(t)
  \/ \E t \in Callers : DrainDone(t)
  \/ \E t \in Callers : DrainFail(t)
  \/ \E t \in Callers : Resume(t)
  \/ \E t \in Callers : Timeout(t)
  \/ ReceiveLine
  \/ ReceiveTimeout \/ ReceiveEOF \/ ReceiveCancelled
  \/ StartKeepalive \/ StartKeepaliveAgain \/ KeepaliveCancelled \/ OldKeepaliveEnd
  \/ CloseCall \/ CloseKeepaliveAwaited \/ CloseFinish \/ CloseAgain
  \/ ServerDisconnect

LifeSpec == Init /\ [][LifeNext]_vars


\* ------------------------------------------------------------ pure helpers
\* The helpers of protocol.py, events.py and exceptions.py applied to inputs
\* drawn at the start; the connection stays as constructed.
Chars == {"\\", "s", "/", " ", "|", "\n", "\r", "\t", "BEL", "BSP", "FF", "VT"}

\* the texts of up to n characters of an alphabet
RECURSIVE StringsUpTo(_, _)
StringsUpTo(chars, n) ==
  IF n = 0 THEN {<<>>}
  ELSE LET S == StringsUpTo(chars, n - 1)
       IN S \cup {Append(x, c) : x \in {y \in S : Len(y) = n - 1}, c \in chars}

\* the keyword arguments and values of commands
Keys == {<<"s", "i", "d">>, <<"m", "s", "g">>}
Values ==
  {IntValue(5), IntValue(12), IntValue(0 - 1), StrValue(<<>>),
   StrValue(<<"p", "w", " ", "o", "n", "e">>), StrValue(<<"a", "|", "\\", "s">>),
   StrValue(<<"U+00E4">>), StrValue(<<"\n", "\r">>), StrValue(<<" ", "\t", "|">>)}

Kwargs ==
  {<<>>} \cup {<<[k |-> k1, v |-> v1]>> : k1 \in Keys, v1 \in Values}
  \cup UNION {{<<[k |-> k1, v |-> v1], [k |-> k2, v |-> v2]>> :
                  k2 \in Keys \ {k1}, v1 \in Values, v2 \in Values} : k1 \in Keys}

\* terminal lines: "error", then id= and msg= in either order, either of
\* them possibly absent; text is the message before the server escaped it
ErrorMsgs ==
  {None,
   Some([wire |-> <<"o", "k">>, text |-> <<"o", "k">>]),
   Some([wire |-> MsgInvalid, text |-> <<"i", "n", "v", "a", "l", "i", "d", " ", "p">>]),
   Some([wire |-> <<"a", "\\", "p", "b", "\\", "/">>, text |-> <<"a", "|", "b", "/">>]),
   Some([wire |-> <<"c", "\\", "\\", "d">>, text |-> <<"c", "\\", "d">>])}

\* the line on the wire
ErrorLineOf(a) ==
  LET idPart == IF a.id = None THEN <<>> ELSE <<KV("id", StrNat(a.id[1]))>>
      msgPart == IF a.msg = None THEN <<>> ELSE <<KV("msg", a.msg[1].wire)>>
  IN [words |-> <<Bare("error")>>
                \o (IF a.idFirst THEN idPart \o msgPart ELSE msgPart \o idPart),
      cmd |-> 0, n |-> 0]

\* the field maps of events: some of four keys, each empty, a number or a
\* name
FieldMaps ==
  UNION {[K -> {<<>>, <<"7">>, <<"x">>}] :
           K \in SUBSET {"clid", "invokerid", "invokername", "ctid"}}

\* the fields of a notifyserveredited: the invoker and reason keys and one
\* changed property
ServerFieldMaps ==
  UNION {[K -> {<<>>, <<"7">>, <<"x">>}] :
           K \in SUBSET {"reasonid", "invokerid", "invokeruid", "invokername",
                         "virtualserver_name"}}

\* responses: every text of up to MaxLen + 1 characters of a small alphabet,
\* and four longer ones
ResponseChars == {"a", "=", " ", "|", "\\", "s"}

ResponseClient == KeyClientId \o <<"=", "5", " ">> \o KeyClientAway \o <<"=", "1">>
ResponseTwoRecords == <<"a", "=", "1", "|", "a", "=", "2">>
ResponseOddTokens ==
  <<"a", "=", "1", " ", " ", "b", " ", "-", "c", " ", "=", "x", " ",
    "a", "=", "2", " ", "k", "=", "v", "=", "w">>
ResponseOddItems == <<"|", "a", "=", "1", "|", "|", "b", "|">>

\* the data lines of one response: up to MaxLen lines of one or two bytes of
\* "a" and "|"
LineSeqs ==
  UNION {[1..n -> StringsUpTo({"a", "|"}, 2) \ {<<>>}] : n \in 0..MaxLen}

\* the inputs of the pure functions: strings, responses, the data lines of a
\* response, events, terminal lines, and commands (a verb, up to two distinct
\* flags, up to two keyword arguments)
PureInputs ==
  {[kind |-> "string", v |-> x] : x \in StringsUpTo(Chars, MaxLen)}
  \cup {[kind |-> "response", v |-> x] :
          x \in StringsUpTo(ResponseChars, MaxLen + 1)
                \cup {ResponseClient, ResponseTwoRecords, ResponseOddTokens,
                      ResponseOddItems}}
  \cup {[kind |-> "lines", lines |-> ls] : ls \in LineSeqs}
  \cup {[kind |-> "event", type |-> ty, data |-> d] :
          ty \in {"notifyclientmoved", "notifyclientleftview",
                  "notifytextmessage", "notifyunknownevent"},
          d \in FieldMaps}
  \cup {[kind |-> "event", type |-> "notifyserveredited", data |-> d] :
          d \in ServerFieldMaps}
  \cup {[kind |-> "errorline", id |-> id, msg |-> msg, idFirst |-> f] :
          id \in {None, Some(0), Some(7), Some(512), Some(1024), Some(3329)}, msg \in ErrorMsgs, f \in BOOLEAN}
  \cup {[kind |-> "command", verb |-> c, flags |-> f, params |-> kw] :
          c \in {<<"u", "s", "e">>, <<"l", "o", "g", "i", "n">>},
          f \in LET S == {<<"u", "i", "d">>, <<"a", "w", "a", "y">>}
                IN {<<>>} \cup {<<x>> : x \in S}
                   \cup {p \in S \X S : p[1] # p[2]},
          kw \in Kwargs}

PureInit == Constructed /\ pure \in {Unapplied(a) : a \in PureInputs}

\* helper f applied, with result r
Applied(f, r) == [fn |-> Append(pure.fn, f), arg |-> pure.arg, ret |-> r]

\* escape(raw) on the input
ApplyEscape ==
  /\ pure.arg.kind = "string" /\ pure.fn = <<>>
  /\ pure' = Applied("escape", escape(pure.arg.v))
  /\ UNCHANGED <<conn, resp, sendv, env, evs, connPc, closePc, rx, last, timer>>

\* unescape(raw) on the input, or on the result of escape
ApplyUnescape ==
  /\ pure.arg.kind = "string" /\ pure.fn \in {<<>>, <<"escape">>}
  /\ pure' = Applied("unescape",
                     unescape(IF pure.fn = <<>> THEN pure.arg.v ELSE pure.ret))
  /\ UNCHANGED <<conn, resp, sendv, env, evs, connPc, closePc, rx, last, timer>>

ApplyBuildCommand ==
  /\ pure.arg.kind = "command" /\ pure.fn = <<>>
  /\ pure' = Applied("build_command",
                     build_command(pure.arg.verb, pure.arg.flags, pure.arg.params))
  /\ UNCHANGED <<conn, resp, sendv, env, evs, connPc, closePc, rx, last, timer>>

\* _parse_error(line)
ApplyParseError ==
  /\ pure.arg.kind = "errorline" /\ pure.fn = <<>>
  /\ pure' = Applied("_parse_error", ParseError(ErrorLineOf(pure.arg)))
  /\ UNCHANGED <<conn, resp, sendv, env, evs, connPc, closePc, rx, last, timer>>

ApplyParseEvent ==
  /\ pure.arg.kind = "event" /\ pure.fn = <<>>
  /\ pure' = Applied("parse_event", parse_event(pure.arg.type, pure.arg.data))
  /\ UNCHANGED <<conn, resp, sendv, env, evs, connPc, closePc, rx, last, timer>>

ApplyParseResponseToDict ==
  /\ pure.arg.kind = "response" /\ pure.fn = <<>>
  /\ pure' = Applied("parse_response_to_dict", parse_response_to_dict(pure.arg.v))
  /\ UNCHANGED <<conn, resp, sendv, env, evs, connPc, closePc, rx, last, timer>>

ApplyParseResponseToList ==
  /\ pure.arg.kind = "response" /\ pure.fn = <<>>
  /\ pure' = Applied("parse_response_to_list", parse_response_to_list(pure.arg.v))
  /\ UNCHANGED <<conn, resp, sendv, env, evs, connPc, closePc, rx, last, timer>>

\* the last statements of command_wrapper on the value of its _send
ApplyCommandWrapper ==
  /\ pure.arg.kind = "response" /\ pure.fn = <<>>
  /\ pure' = Applied("command_wrapper", WrapperValue(pure.arg.v))
  /\ UNCHANGED <<conn, resp, sendv, env, evs, connPc, closePc, rx, last, timer>>

\* the last statements of _send on the lines of _pending_response
ApplyJoin ==
  /\ pure.arg.kind = "lines" /\ pure.fn = <<>>
  /\ pure' = Applied("join", JoinBytes(pure.arg.lines))
  /\ UNCHANGED <<conn, resp, sendv, env, evs, connPc, closePc, rx, last, timer>>

PureNext ==
  \/ ApplyEscape \/ ApplyUnescape
  \/ ApplyCommandWrapper \/ ApplyJoin
  \/ ApplyParseResponseToDict \/ ApplyParseResponseToList
  \/ ApplyParseEvent
  \/ ApplyParseError
  \/ ApplyBuildCommand

PureSpec == PureInit /\ [][PureNext]_vars

\* =================================================================== claims
TermId(line) == ScanError(line.words, 2, 0, MsgOk)[1]
MsgInvalidText == <<"i", "n", "v", "a", "l", "i", "d", " ", "p">>

\* the outcome of an ended call is built only from lines of its own response
OwnOutcome(l) ==
  /\ l.o.kind = "TS3QueryError" => l.o.error[1].cmd = l.cmd
  /\ \A i \in DOMAIN l.o.lines : l.o.lines[i].cmd = l.cmd

\* C1: once the receive loop has routed the terminal line of the command in
\* flight, the call does not go on waiting; it ends by returning when the id
\* is 0 and by raising TS3QueryError when the id is not 0.
C1_TerminalEndsCall ==
  /\ \A t \in Tasks :
       (InFlight(t) /\ cmdOf[t] = lastWrite /\ rx.term # None) => pc[t] # "waiting"
  /\ (/\ last.written /\ last.rx.term # None
      /\ last.o.kind \in {"returned", "TS3QueryError", "TS3TimeoutError"})
     => IF TermId(last.rx.term[1]) = 0
        THEN last.o.kind = "returned"
        ELSE last.o.kind = "TS3QueryError"

\* what was routed for command c after the sequence: notification of type
\* ty, one data line, "error id=0 msg=ok"
NotifyDataOk(ty, c) ==
  [term |-> Some(ErrorLine(c, IdOk, MsgOk)), early |-> FALSE, error |-> TRUE,
   data |-> 1, notify |-> Some([type |-> ty, at |-> 0]), lost |-> FALSE,
   failed |-> FALSE, dropped |-> 0]

\* C2: after a notification line, one data line and "error id=0 msg=ok" were
\* routed for the command in flight, the event is in the event stream and the
\* call has not gone back to waiting; when it has ended, it returned exactly
\* the one data line.
C2_InterleavedNotification ==
  \A ty \in KnownEvents : \A c \in CmdIds :
    /\ rx = NotifyDataOk(ty, c)
        => /\ \E i \in DOMAIN (delivered \o event_queue) :
                (delivered \o event_queue)[i].type = ty
           /\ \A t \in Tasks : cmdOf[t] = c => pc[t] # "waiting"
    /\ (/\ last.cmd = c /\ last.rx = NotifyDataOk(ty, c)
        /\ last.o.kind # "CancelledError")
        => /\ last.o.kind = "returned"
           /\ Len(last.o.lines) = 1
           /\ ~StartsWithNotify(last.o.lines[1])

\* C3: the pending-response buffer never holds a line with the notify prefix,
\* and a step of the receive loop that routes such a line changes neither the
\* buffer nor the error slot.
C3_NotifyNeverAttributed ==
  /\ [](\A i \in DOMAIN pending_response : ~StartsWithNotify(pending_response[i]))
  /\ [][\A line \in ServerLines :
          (StartsWithNotify(line) /\ RouteLine(line)) => UNCHANGED resp]_vars

\* a notification was routed between a data line of the command in flight and
\* its terminal line
C3_Witness ==
  \E t \in Tasks : \E ty \in NotifyTypes :
    /\ pc[t] \in {"waiting", "notified"}
    /\ rx = [RxNone EXCEPT !.data = 1, !.notify = Some([type |-> ty, at |-> 1])]
    /\ srvq # <<>> /\ Head(srvq) = cmdOf[t]
    /\ pending_response = <<DataLine(cmdOf[t], 1)>>

\* C4: at most one task is between writing its command and the end of its
\* wait for the response.
C4_OneCommandInFlight == Cardinality({t \in Tasks : InFlight(t)}) <= 1

\* one task has a command in flight while the other one waits for the lock
C4_Witness ==
  \E t \in Tasks : \E u \in Tasks : InFlight(t) /\ pc[u] = "lockwait"

\* C5: of calls issued while another command is in flight, the commands are
\* written in call order, the calls end in call order (when a call ends,
\* every call still under way was issued after it), and the outcome of a call
\* that had to wait for the lock holds no line of another command's response.
C5_FifoNonInterleaved ==
  /\ []((last.written /\ last.queued) => OwnOutcome(last))
  /\ [][lastWrite' # lastWrite => lastWrite' > lastWrite]_vars
  /\ [](last.written => \A t \in Tasks : cmdOf[t] # 0 => cmdOf[t] > last.cmd)

C7_TimeoutDoesNotCorrupt ==
  (last.written /\ last.afterTimeout) => OwnOutcome(last)

\* C8: a call hands a response to its caller (a result or a query failure)
\* only after an error line was routed since its command was written.
C8_NoResponseBeforeTerminal ==
  (last.written /\ last.o.kind \in {"returned", "TS3QueryError"}) => last.rx.error

\* a data line has been routed, no error line yet, and the call waits
C8_Witness ==
  \E t \in Tasks :
    /\ pc[t] = "waiting"
    /\ pending_response = <<DataLine(cmdOf[t], 1)>>
    /\ ~rx.error /\ rx.data = 1

C10_ReadFailureDisconnects ==
  (recv_task = "eof" /\ ~closing) => ~ConnectedProperty(connected, closing)

\* C11: a command call made after the receive loop has ended on a read
\* failure ends with TS3ConnectionError or its subtype TS3TimeoutError (the
\* call of a task that close() cancels excepted).
C11_CallsFailAfterReadFailure ==
  (/\ last.written /\ last.rx.lost /\ ~last.queued
   /\ last.o.kind # "CancelledError")
  => last.o.kind \in {"TS3ConnectionError", "TS3TimeoutError"}

\* C17: after connect() has raised, the connected property is false and no
\* receive task was started, a call made then ends with TS3ConnectionError,
\* and no command written after connect() raised is in flight.
C17_ConnectFailureLeavesDisconnected ==
  /\ connPc = "failed"
       => ~ConnectedProperty(connected, closing) /\ recv_task = "none"
  /\ (connPc = "failed" /\ last.task # "none" /\ ~last.written)
       => last.o.kind = "TS3ConnectionError"
  /\ \A t \in Tasks : ~(InFlight(t) /\ cmdOf[t] = lastWrite /\ rx.failed)

\* C19: a call that has ended neither holds the send lock nor waits for it,
\* after a call that had written its command the lock is free, and whenever
\* the lock is free the first waiter can take it.
C19_LockReleasedOnEveryExit ==
  /\ last.task # "none"
       => /\ send_lock.locked_by # last.task
          /\ \A i \in DOMAIN send_lock.waiters : send_lock.waiters[i] # last.task
  /\ last.written => send_lock.locked_by = "none"
  /\ \A t \in Tasks :
       (/\ send_lock.locked_by = "none" /\ send_lock.waiters # <<>>
        /\ Head(send_lock.waiters) = t /\ Active(t))
       => ENABLED LockGranted(t)

\* the task holding the lock was cancelled inside _send while another task
\* waited for the lock
C19_Witness ==
  /\ last.written /\ last.o.kind = "CancelledError"
  /\ send_lock.locked_by = "none" /\ send_lock.waiters # <<>>

\* C20: on a connection that connect() has set up, a call ends by returning, with a TS3 error or by cancellation of its
\* task; a failed write or flush ends it with TS3ConnectionError or its
\* subtype, not with another exception type.
C20_WriteFailureIsConnectionError ==
  (connPc = "done" /\ last.task # "none")
  => last.o.kind \in {"returned", "TS3QueryError", "TS3ConnectionError",
                      "TS3TimeoutError", "CancelledError"}

\* C18: a step in which a call of the keepalive task ends with anything but
\* cancellation leaves the keepalive task running and the flags, the
\* receive task, the writer and the stream unchanged; after a call of the
\* keepalive task ended by cancellation the task is over.
C18_KeepaliveNeverTearsDown ==
  /\ [][(last'.task = Keepalive /\ last'.o.kind # "CancelledError")
          => /\ keepalive_task' = "running"
             /\ UNCHANGED <<writer, connected, closing, recv_task, stream>>]_vars
  /\ []((last.task = Keepalive /\ last.o.kind = "CancelledError")
          => keepalive_task = "cancelled")

\* a whoami of the keepalive task has timed out and the loop is still running
C18_Witness ==
  /\ last.task = Keepalive /\ last.o.kind = "TS3TimeoutError"
  /\ keepalive_task = "running" /\ connected /\ ~closing /\ recv_task = "running"

\* C13: a notification line of a known type is routed whatever the state of
\* the send lock and of the commands (the step is enabled whenever the
\* receive loop is reading an open stream), the step puts the event at the
\* end of the event queue and touches neither the lock nor any command nor
\* the response state; and the events() consumer can take the head of the
\* queue whenever the queue is not empty and the connection is connected,
\* whatever the commands are doing.
C13_EventsNotBlockedByCommand ==
  /\ [][\A ty \in KnownEvents :
          RouteLine(NotifyLine(ty))
          => /\ event_queue' = Append(event_queue, ParseNotify(NotifyLine(ty))[1])
             /\ UNCHANGED <<send_lock, pc, pending_response, response_error>>]_vars
  /\ [](\A ty \in KnownEvents :
          (recv_task = "running" /\ stream = "open")
          => ENABLED RouteLine(NotifyLine(ty)))
  /\ []((evPc = "iterating" /\ connected /\ ~closing /\ event_queue # <<>>)
          => ENABLED EventsYield)

\* the consumer has received the event of a notification that was routed
\* while the command still in flight is waiting for its terminal line and
\* the keepalive task is queued behind it on the send lock
C13_Witness ==
  \E t \in Callers :
    /\ pc[t] = "waiting" /\ cmdOf[t] = lastWrite
    /\ rx.term = None /\ rx.notify # None
    /\ pc[Keepalive] = "lockwait"
    /\ extraSent = 1 /\ Len(delivered) = 1 /\ event_queue = <<>>

\* C15: when close() has returned, the receive task and every keepalive task
\* started on the connection are over, and close() releases the socket only
\* when they are over.
C15_NoTaskOutlivesClose ==
  /\ [](closePc = "closed"
         => /\ recv_task \notin {"running", "cancelling"}
            /\ keepalive_task \notin {"running", "cancelling"}
            /\ old_keepalive # "running")
  /\ [][CloseFinish => /\ recv_task \notin {"running", "cancelling"}
                       /\ keepalive_task \notin {"running", "cancelling"}
                       /\ old_keepalive # "running"]_vars

\* the life cycle state the two flags stand for, as its place in
\* Disconnected, Connected, Closing, Disconnected (terminal); with the
\* closing flag set the state is Closing until close() has returned
LifeRank(c, cl, returned) ==
  IF cl THEN (IF ~c /\ returned THEN 3 ELSE 2) ELSE (IF c THEN 1 ELSE 0)

\* C16: the life cycle state derived from the flags never goes back, no step
\* taken after close() returned changes a flag, and the connected property
\* is false after close() returned.
C16_LifecycleOnlyAdvances ==
  /\ [][LifeRank(connected', closing', closePc' = "closed")
        >= LifeRank(connected, closing, closePc = "closed")]_vars
  /\ [][closePc = "closed" => UNCHANGED <<connected, closing>>]_vars
  /\ [](closePc = "closed" => ~ConnectedProperty(connected, closing))

\* C12: every command call that has started eventually ends.
C12_NoCallerWaitsForever ==
  \A t \in Callers : (pc[t] # "idle") ~> (pc[t] = "idle")

\* C14: once close() has been called, the consumer iterating events() leaves
\* the iteration.
C14_EventsEndsAfterClose ==
  (closing /\ evPc = "iterating") ~> (evPc = "ended")

\* the iteration has ended while close() is still awaiting the receive task,
\* after the consumer had received an event
C14_Witness ==
  /\ evPc = "ended" /\ closePc = "await_recv" /\ delivered # <<>>

\* C21: unescape applied to the result of escape gives the text escape was
\* applied to.
C21_UnescapeInvertsEscape ==
  pure.fn = <<"escape", "unescape">> => pure.ret = pure.arg.v

\* C22: the bytes build_command yields end with newline and carriage return,
\* and what is before them, split at the spaces, is the verb, then "-flag"
\* for every flag, then "key=" and the escaped str(value) for every
\* parameter, in the order given; the value "pw one" is sent as pw\sone.
C22_BuildCommandLayout ==
  pure.fn = <<"build_command">> =>
    LET a == pure.arg
        n == Len(pure.ret)
        body == SubSeq(pure.ret, 1, n - 2)
        tokens == SplitOn(body, " ")
        nf == Len(a.flags)
    IN /\ n >= 2 /\ SubSeq(pure.ret, n - 1, n) = <<"\n", "\r">>
       /\ Len(tokens) = 1 + nf + Len(a.params)
       /\ tokens[1] = a.verb
       /\ \A i \in 1..nf : tokens[1 + i] = <<"-">> \o a.flags[i]
       /\ \A i \in 1..Len(a.params) :
            /\ tokens[1 + nf + i]
                 = EncodeUtf8(a.params[i].k \o <<"=">> \o escape(Str(a.params[i].v)))
            /\ a.params[i].v = StrValue(<<"p", "w", " ", "o", "n", "e">>)
                 => tokens[1 + nf + i]
                      = a.params[i].k \o <<"=", "p", "w", "\\", "s", "o", "n", "e">>
            /\ a.params[i].v = IntValue(12)
                 => tokens[1 + nf + i] = a.params[i].k \o <<"=", "1", "2">>

\* a command with two flags and the parameters msg="pw one" and sid=12 built
C22_Witness ==
  /\ pure.fn = <<"build_command">>
  /\ Len(pure.arg.flags) = 2
  /\ pure.arg.params = <<[k |-> <<"m", "s", "g">>,
                          v |-> StrValue(<<"p", "w", " ", "o", "n", "e">>)],
                         [k |-> <<"s", "i", "d">>, v |-> IntValue(12)]>>

\* C23: _parse_error yields None for a line whose id is 0 or absent; for any
\* other id it yields a TS3QueryError with that id, with the message of the
\* line unescaped ("ok" when the line has none), and with the named code of
\* the id, or UNDEFINED when the table has none.
C23_ParseErrorResult ==
  pure.fn = <<"_parse_error">> =>
    LET a == pure.arg
    IN IF a.id = None \/ a.id = Some(0)
       THEN pure.ret = None
       ELSE /\ pure.ret # None
            /\ pure.ret[1].error_id = a.id[1]
            /\ pure.ret[1].error_message
                 = IF a.msg = None THEN <<"o", "k">> ELSE a.msg[1].text
            /\ pure.ret[1].error_code.named = (a.id[1] \in {512, 1024})
            /\ pure.ret[1].error_code.named => pure.ret[1].error_code.id = a.id[1]

\* a line with an id the table does not have and an escaped message, the
\* message before the id, was parsed into a failure
C23_Witness ==
  /\ pure.fn = <<"_parse_error">>
  /\ pure.arg.id = Some(3329) /\ ~pure.arg.idFirst
  /\ pure.arg.msg # None /\ pure.arg.msg[1].wire = MsgInvalid
  /\ pure.ret # None /\ pure.ret[1].error_code = UNDEFINED

\* C24: for the type notifyclientmoved parse_event returns a ClientMovedEvent,
\* which carries the invoker's id, name and uid, exactly when the field map
\* has the key invokerid (whatever its value), and a ClientMovedSelfEvent,
\* which carries none of them, exactly when it has not.
C24_ClientMovedVariants ==
  (pure.fn = <<"parse_event">> /\ pure.arg.type = "notifyclientmoved") =>
    LET d == pure.arg.data
        has == \E k \in DOMAIN d : k = "invokerid"
    IN /\ pure.ret # None
       /\ pure.ret[1].class = "ClientMovedEvent" <=> has
       /\ pure.ret[1].class = "ClientMovedSelfEvent" <=> ~has
       /\ has => /\ {"invoker_id", "invoker_name", "invoker_uid"}
                       \subseteq DOMAIN pure.ret[1]
                  /\ pure.ret[1].invoker_id = (IF d["invokerid"] = <<"7">> THEN 7 ELSE 0 - 1)
                  /\ pure.ret[1].invoker_uid = <<>>
       /\ ~has => {"invoker_id", "invoker_name", "invoker_uid"}
                    \cap DOMAIN pure.ret[1] = {}

\* a notifyclientmoved whose invokerid is present with an empty value was
\* parsed
C24_Witness ==
  /\ pure.fn = <<"parse_event">> /\ pure.arg.type = "notifyclientmoved"
  /\ DOMAIN pure.arg.data = {"clid", "invokerid"}
  /\ pure.arg.data["invokerid"] = <<>>
  /\ pure.ret # None

\* The first "=" of a token, the key it gives and the value it gives.
FirstEq(tok) ==
  CHOOSE i \in DOMAIN tok : tok[i] = "=" /\ \A j \in 1..(i - 1) : tok[j] # "="
HasEq(tok) == \E i \in DOMAIN tok : tok[i] = "="
TokKey(tok) == IF HasEq(tok) THEN SubSeq(tok, 1, FirstEq(tok) - 1) ELSE tok
TokValue(tok) ==
  IF HasEq(tok) THEN unescape(SubSeq(tok, FirstEq(tok) + 1, Len(tok))) ELSE <<>>

\* C25: parse_response_to_dict splits the text on single spaces; a token with
\* an "=" gives the key before its first "=" and the unescaped text after it,
\* a non-empty token without "=" gives itself with the empty value, an empty
\* token gives nothing, and a later token overwrites an earlier one with the
\* same key.  "client_id=5 client_away=1" gives client_id -> 5 and
\* client_away -> 1.
C25_ParseResponseToDict ==
  pure.fn = <<"parse_response_to_dict">> =>
    LET toks == SplitOn(pure.arg.v, " ")
        I == {i \in DOMAIN toks : toks[i] # <<>>}
    IN /\ DOMAIN pure.ret = {TokKey(toks[i]) : i \in I}
       /\ \A i \in I :
            (\A j \in I : j > i => TokKey(toks[j]) # TokKey(toks[i]))
              => pure.ret[TokKey(toks[i])] = TokValue(toks[i])
       /\ pure.arg.v = ResponseClient =>
            /\ DOMAIN pure.ret = {KeyClientId, KeyClientAway}
            /\ pure.ret[KeyClientId] = <<"5">>
            /\ pure.ret[KeyClientAway] = <<"1">>
       /\ pure.arg.v = ResponseOddTokens =>
            /\ DOMAIN pure.ret = {<<"a">>, <<"b">>, <<"-", "c">>, <<>>, <<"k">>}
            /\ pure.ret[<<"a">>] = <<"2">>
            /\ pure.ret[<<"b">>] = <<>>
            /\ pure.ret[<<>>] = <<"x">>
            /\ pure.ret[<<"k">>] = <<"v", "=", "w">>
       /\ pure.arg.v = <<"a", "=", "\\", "s">> =>
            pure.ret[<<"a">>] = <<" ">>
       /\ pure.arg.v = <<" ", " ">> => DOMAIN pure.ret = {}

\* a text with an empty token between two spaces, a bare token and a key
\* given twice was parsed
C25_Witness ==
  /\ pure.fn = <<"parse_response_to_dict">>
  /\ pure.arg.v = ResponseOddTokens
  /\ DOMAIN pure.ret = {<<"a">>, <<"b">>, <<"-", "c">>, <<>>, <<"k">>}

\* C26: parse_response_to_list gives one map for every non-empty segment
\* between "|" characters, in the order of the segments, each the
\* parse_response_to_dict of its segment.  "a=1|a=2" gives two maps.
C26_ParseResponseToList ==
  pure.fn = <<"parse_response_to_list">> =>
    LET segs == SplitOn(pure.arg.v, "|")
        I == {i \in DOMAIN segs : segs[i] # <<>>}
        Pos(i) == Cardinality({j \in I : j <= i})
    IN /\ Len(pure.ret) = Cardinality(I)
       /\ \A i \in I : pure.ret[Pos(i)] = parse_response_to_dict(segs[i])
       /\ pure.arg.v = ResponseTwoRecords =>
            /\ Len(pure.ret) = 2
            /\ DOMAIN pure.ret[1] = {<<"a">>} /\ pure.ret[1][<<"a">>] = <<"1">>
            /\ DOMAIN pure.ret[2] = {<<"a">>} /\ pure.ret[2][<<"a">>] = <<"2">>
       /\ pure.arg.v = ResponseOddItems =>
            /\ Len(pure.ret) = 2
            /\ pure.ret[1][<<"a">>] = <<"1">>
            /\ DOMAIN pure.ret[2] = {<<"b">>}
       /\ pure.arg.v = <<>> => pure.ret = <<>>

\* a text with empty segments at both ends and in the middle was parsed
C26_Witness ==
  /\ pure.fn = <<"parse_response_to_list">>
  /\ pure.arg.v = ResponseOddItems
  /\ Len(pure.ret) = 2

\* C27: a passthrough call whose command was written and whose terminal line
\* with id 0 was routed ends by returning the records of its response: the
\* one map client_id -> 5 when the response is the one data line
\* client_id=5.
C27_PassthroughReturnsParsed ==
  (/\ last.task \in Callers /\ last.written /\ last.rx.term # None
   /\ TermId(last.rx.term[1]) = 0
   /\ last.o.kind \in {"returned", "TS3QueryError", "TS3TimeoutError"})
  => /\ command_wrapper(last.o).kind = "returned"
     /\ (Len(last.o.lines) = 1 /\ OwnOutcome(last)) =>
          /\ command_wrapper(last.o).value # None
          /\ command_wrapper(last.o).value[1].type = "dict"
          /\ DOMAIN command_wrapper(last.o).value[1].v = {KeyClientId}
          /\ command_wrapper(last.o).value[1].v[KeyClientId] = <<"5">>

\* C28: the value _send returns for two or more data lines determines the
\* lines: no other sequence of data lines gives the same value.
C28_LinesRecoverable ==
  (pure.fn = <<"join">> /\ Len(pure.arg.lines) >= 2) =>
    \A ls \in LineSeqs : JoinBytes(ls) = pure.ret => ls = pure.arg.lines

\* C29: every step that writes to the socket is taken by the holder of the
\* command lock: a task that starts writing its command holds the lock, and
\* close() writes quit only when no task holds the lock for a command of its
\* own (close() runs in none of the tasks that are inside _send).
C29_OnlyLockHolderWrites ==
  [][/\ \A t \in Tasks :
          (pc[t] \notin {"drain", "drain_lost"} /\ pc'[t] \in {"drain", "drain_lost"})
            => send_lock'.locked_by = t
     /\ (closePc = "await_recv" /\ closePc' = "closed" /\ writer)
          => send_lock.locked_by = "none"]_vars

\* C30: a step that ends the running receive loop is its cancellation, or is
\* taken with closing set, or is a read failure on a stream that is closed or
\* reset; no step ends the loop on an open stream with closing unset.
C30_LoopEndsOnlyOnFailure ==
  [][(recv_task = "running" /\ recv_task' \notin {"running", "cancelling"})
       => \/ recv_task' = "cancelled"
          \/ closing
          \/ recv_task' = "eof" /\ stream # "open"]_vars

\* C31: a call waiting for its terminal line has waited for at most one
\* timeout period since its wait began, whatever data lines arrived meanwhile.
C31_WaitBoundedByOnePeriod ==
  \A t \in Tasks : pc[t] = "waiting" => timer[t].since_wait <= Period

\* C32: each of the two line reads of connect() leaves the response buffer,
\* the error slot and the event queue as they were, whatever the line is;
\* the connected flag is set and the receive loop started by the second read
\* and not by the first.
C32_GreetingDiscarded ==
  [][(connPc \in {"greeting1", "greeting2"} /\ connPc' \in {"greeting2", "done"}
      /\ connPc' # connPc)
     => /\ pending_response' = pending_response
        /\ response_error' = response_error
        /\ event_queue' = event_queue
        /\ connPc = "greeting1" => (connected' = connected /\ recv_task' = recv_task)
        /\ connPc = "greeting2" => (connected' /\ recv_task' \in {"running", "finished"})]_vars

\* connect() has read its two lines and started the receive loop, and nothing
\* was stored or enqueued
C32_Witness ==
  /\ connPc = "done" /\ connected /\ recv_task = "running"
  /\ pending_response = <<>> /\ response_error = None /\ event_queue = <<>>
  /\ extraSent = 0 /\ lastWrite = 0

\* C33: a step of the receive loop that routes a notification of a type
\* parse_event does not know leaves the event queue, the response buffer and
\* the error slot as they were and leaves the loop running (it stops only
\* when closing is set).
C33_UnknownNotificationDropped ==
  [][\A line \in ServerLines :
       (/\ StartsWithNotify(line) /\ line.words[1].k \notin KnownEvents
        /\ RouteLine(line))
       => /\ event_queue' = event_queue
          /\ pending_response' = pending_response
          /\ response_error' = response_error
          /\ recv_task' = (IF closing THEN "finished" ELSE "running")]_vars

\* after a notification of an unknown type was routed, with nothing enqueued,
\* the receive loop has routed a data line of the command in flight
C33_Witness ==
  /\ rx.notify = Some([type |-> "notifyunknownevent", at |-> 0])
  /\ rx.data = 1 /\ Len(pending_response) = 1
  /\ event_queue = <<>> /\ delivered = <<>>
  /\ recv_task = "running"

\* C34: the changed_properties of the event parse_event makes of a
\* notifyserveredited has the key virtualserver_name, with the value of the
\* field map, exactly when the field map has it, and none of the keys
\* reasonid, invokerid, invokeruid and invokername.
C34_ChangedProperties ==
  (pure.fn = <<"parse_event">> /\ pure.arg.type = "notifyserveredited") =>
    /\ pure.ret # None
    /\ pure.ret[1].class = "ServerEditedEvent"
    /\ LET changed == pure.ret[1].changed_properties
           d == pure.arg.data
       IN /\ \A k \in {"reasonid", "invokerid", "invokeruid", "invokername"} :
               k \notin DOMAIN changed
          /\ \A k \in DOMAIN d :
               k = "virtualserver_name" => (k \in DOMAIN changed /\ changed[k] = d[k])
          /\ DOMAIN changed \subseteq DOMAIN d

\* a notifyserveredited with all four invoker and reason keys and a changed
\* property was parsed
C34_Witness ==
  /\ pure.fn = <<"parse_event">> /\ pure.arg.type = "notifyserveredited"
  /\ DOMAIN pure.arg.data =
       {"reasonid", "invokerid", "invokeruid", "invokername", "virtualserver_name"}
  /\ pure.arg.data["virtualserver_name"] = <<"x">>
  /\ DOMAIN pure.ret[1].changed_properties = {"virtualserver_name"}

\* C35: a step of the receive loop on a line that makes handling raise (a
\* terminal line whose id is no integer, undecodable bytes) leaves the error
\* slot, the response buffer and the event queue as they were, wakes no
\* waiting caller and leaves the loop running.
C35_RaisingLineDropped ==
  [][\A line \in UnparsableLines :
       DropLine(line)
       => /\ response_error' = response_error
          /\ pending_response' = pending_response
          /\ event_queue' = event_queue
          /\ pc' = pc
          /\ recv_task' = (IF closing THEN "finished" ELSE "running")]_vars

\* a call ended with the TS3QueryError of its own terminal line, routed after
\* a line of its response had been dropped
C35_Witness ==
  /\ last.o.kind = "TS3QueryError" /\ last.o.error[1].cmd = last.cmd
  /\ last.rx.dropped = 1 /\ last.rx.data = 0
  /\ recv_task = "running"

\* C36: while a command is in flight and the server is answering it, the
\* response buffer holds every data line of its response the receive loop has
\* read; the step that writes a command is taken with the lock held by the
\* writing task and with the buffer and the error slot already reset, and
\* what the reset removed was no line of the command being written.
C36_ResetKeepsOwnLines ==
  /\ [](\A t \in Tasks :
          (/\ InFlight(t) /\ cmdOf[t] = lastWrite /\ recv_task = "running"
           /\ srvq # <<>> /\ Head(srvq) = cmdOf[t])
          => Cardinality({i \in DOMAIN pending_response :
                            pending_response[i].cmd = cmdOf[t]}) = srvData)
  /\ [][lastWrite' # lastWrite
          => /\ \E t \in Tasks : send_lock'.locked_by = t /\ cmdOf'[t] = lastWrite'
             /\ pending_response' = <<>> /\ response_error' = None
             /\ \A i \in DOMAIN pending_response :
                  pending_response[i].cmd # lastWrite'
             /\ response_error # None => response_error[1].cmd # lastWrite']_vars

\* the second command is in flight after the first timed out, and the buffer
\* holds the one data line the server has sent for it
C36_Witness ==
  /\ anyTimeout /\ lastWrite = 2
  /\ \E t \in Tasks : InFlight(t) /\ cmdOf[t] = 2
  /\ srvq # <<>> /\ Head(srvq) = 2 /\ srvData = 1
  /\ pending_response = <<DataLine(2, 1)>>

\* C37: a call whose terminal line with a nonzero id was routed while the
\* caller was still in drain() is never found waiting afterwards, and it ends
\* with TS3QueryError unless it is cancelled.
C37_EarlyFailureSeen ==
  /\ \A t \in Tasks :
       (/\ InFlight(t) /\ cmdOf[t] = lastWrite
        /\ rx.early /\ rx.term # None /\ TermId(rx.term[1]) # 0)
       => pc[t] \in {"drain", "drain_lost"}
  /\ (/\ last.written /\ last.rx.early /\ last.rx.term # None
      /\ TermId(last.rx.term[1]) # 0 /\ last.o.kind # "CancelledError")
     => last.o.kind = "TS3QueryError"

\* a call ended with the TS3QueryError of a terminal line routed while its
\* caller was in drain()
C37_Witness ==
  /\ last.written /\ last.rx.early /\ last.rx.term # None
  /\ last.o.kind = "TS3QueryError" /\ last.o.error[1].cmd = last.cmd

\* C38: on a Connection on which connect() was not called, a command call
\* can only end at once, raising TS3ConnectionError, with nothing written,
\* the lock not taken, and the response buffer, the error slot, the event
\* queue and the connected and closing flags as they were.
C38_CallBeforeConnect ==
  [][(connPc = "new" /\ pc' # pc) => FALSE]_vars
  /\ [][(connPc = "new" /\ last'.task \in Tasks)
         => /\ last'.o.kind = "TS3ConnectionError"
            /\ ~last'.written
            /\ UNCHANGED <<send_lock, pending_response, response_error, event_queue,
                           connected, closing>>]_vars

\* a command call made before connect() has ended with TS3ConnectionError
C38_Witness ==
  /\ connPc = "new" /\ last.task \in Callers
  /\ last.o.kind = "TS3ConnectionError" /\ ~last.written
  /\ send_lock.locked_by = "none"

\* the number a numbered notification carries
EventNumber(ev) == ParseInt(ev.raw[2].v)

\* C39: the events yielded so far, followed by the events still queued, are
\* in the order their notification lines were sent, none of them twice:
\* their numbers increase strictly.
C39_EventsInArrivalOrder ==
  LET evs_ == delivered \o event_queue
  IN \A i, j \in DOMAIN evs_ :
       i < j => EventNumber(evs_[i]) < EventNumber(evs_[j])

\* two notifications routed while a command was in flight were yielded in
\* their order, the command still being in flight
C39_Witness ==
  /\ Len(delivered) = 2 /\ event_queue = <<>>
  /\ EventNumber(delivered[1]) < EventNumber(delivered[2])
  /\ \E t \in Callers : InFlight(t) /\ cmdOf[t] = lastWrite

\* the characters escape has to remove: space, pipe, newline, carriage
\* return, tab, bell, backspace, form feed and vertical tab
RawSpecials == {" ", "|", "\n", "\r", "\t", "BEL", "BSP", "FF", "VT"}

\* C40: the result of escape holds none of the nine special characters; the
\* bytes of build_command hold the line terminator once, as their last two
\* bytes, and no newline or carriage return elsewhere, and split on spaces
\* into one token for the verb, one for each flag and one for each parameter.
C40_EscapedNeverBreaksLine ==
  /\ pure.fn = <<"escape">> =>
       \A i \in DOMAIN pure.ret : pure.ret[i] \notin RawSpecials
  /\ pure.fn = <<"build_command">> =>
       LET n == Len(pure.ret)
       IN /\ n >= 2 /\ pure.ret[n - 1] = "\n" /\ pure.ret[n] = "\r"
          /\ \A i \in 1..(n - 2) : pure.ret[i] \notin {"\n", "\r"}
          /\ Len(SplitOn(SubSeq(pure.ret, 1, n - 2), " "))
               = 1 + Len(pure.arg.flags) + Len(pure.arg.params)

\* a command was built with a value holding a newline and a carriage return
\* and a value holding a space, a tab and a pipe
C40_Witness ==
  /\ pure.fn = <<"build_command">>
  /\ Len(pure.arg.params) = 2
  /\ pure.arg.params[1].v = StrValue(<<"\n", "\r">>)
  /\ pure.arg.params[2].v = StrValue(<<" ", "\t", "|">>)

====
